---------------------------- MODULE Spec2Model ----------------------------
(***************************************************************************)
(* Model of the DataLock build page (src/app/build/page.tsx, kept in      *)
(* src/unnamed/part_003): the match-context selection state machine and   *)
(* the recommendation submission cycle of the BuildPage component.        *)
(*                                                                         *)
(* One action is one event processed by the browser's event loop: a       *)
(* click handler run to completion together with the state updates it     *)
(* batches, or the continuation of an async function after an await.      *)
(***************************************************************************)
EXTENDS Integers, Sequences, FiniteSets, TLC

(***************************************************************************)
(* Program constants.                                                      *)
(***************************************************************************)
MAX_TEAM_OTHERS == 4
MAX_LANE_ENEMIES == 2
MAX_ENEMY_OTHERS == 4
TOP_K_PER_PHASE == 8

\* the value null of heroId / laneAllyId (number | null)
NoHero == -1

(***************************************************************************)
(* Bounds of the model.                                                    *)
(***************************************************************************)
\* number of heroes in the catalog served by /api/heroes (ids 0..NumHeroes-1)
NumHeroes == 13
\* the user clicks any hero of the current stage's slot, one of the first
\* CardChoices unassigned cards of the grid, or one of the first CardChoices
\* cards held by another slot (the handlers only compare ids for equality)
CardChoices == 2
\* events per run that leave the straight path of filling the slots with
\* the first unassigned card: toggle-off clicks, clicks on a card held by
\* another slot or on an unassigned card that is not the first, stage
\* clicks, resets and navigations away from the build page
MaxDetours == 1
\* recommendation requests issued per run
MaxSubmits == 2

\* clock ticks per run of the landing page
MaxTicks == 4
\* HomePage instances mounted per run
MaxHomeMounts == 2

\* items per phase of a rendered response
MaxItems == 2
\* significant digits and trailing zeros of the values formatted
MaxMantissa == 999
\* the largest tier converted
MaxTier == 7
\* synergy deltas rendered, in ten-thousandths
MaxDelta == 8

\* const METADATA_CACHE_TTL_MS = 15 * 60 * 1000
METADATA_CACHE_TTL_MS == 15 * 60 * 1000
\* the clock advances in steps of five minutes
TickMs == 5 * 60 * 1000
\* Date.now() when the page is first opened: later than the TTL after
\* timestamp 0
StartMs == 4 * TickMs

HeroIds == 0 .. (NumHeroes - 1)

SelectionStage == {"hero", "laneAlly", "teamOthers", "laneEnemies", "enemyOthers"}

VARIABLES
  mounted,          \* a BuildPage instance is mounted
  epoch,            \* number of the current (or last) BuildPage instance
  heroes,           \* useState<HeroAsset[]>: hero ids in grid order
  isLoadingHeroes,
  heroesError,
  stage,
  heroId,
  laneAllyId,
  teamOtherIds,
  laneEnemyIds,
  enemyOtherIds,
  isSubmitting,
  recommendation,
  submitError,
  showBuildView,
  heroFetches,      \* /api/heroes fetches in flight: set of [epoch, cancelled]
  requests,         \* /api/recommend fetches in flight
  nextReq,          \* number of recommendation requests issued so far
  detours,          \* budget counter, see MaxDetours
  last,             \* the event processed last and the selection before it
  trail,            \* the ids clicked since the selection was last empty
  resetAt,          \* nextReq at the last resetAll
  homeMounted,      \* a HomePage instance is mounted
  homeEpoch,        \* number of the current (or last) HomePage instance
  metadata,         \* useState<MetadataPayload | null>
  isLoadingMetadata,
  metadataError,
  metadataCache,    \* module-level cache of the landing page: the value
  metadataCacheTimestamp,
  now,              \* Date.now(), in ms
  metaFetches,      \* /api/metadata fetches in flight: set of [epoch, cancelled]
  call              \* the call of a pure function made last, with its result

selVars == <<stage, heroId, laneAllyId, teamOtherIds, laneEnemyIds, enemyOtherIds>>
recVars == <<isSubmitting, recommendation, submitError, showBuildView>>
heroVars == <<heroes, isLoadingHeroes, heroesError>>
vars == <<mounted, epoch, heroes, isLoadingHeroes, heroesError, stage, heroId,
          laneAllyId, teamOtherIds, laneEnemyIds, enemyOtherIds, isSubmitting,
          recommendation, submitError, showBuildView, heroFetches, requests,
          nextReq, detours, last, trail, resetAt, homeMounted, homeEpoch,
          metadata, isLoadingMetadata, metadataError, metadataCache,
          metadataCacheTimestamp, now, metaFetches, call>>
homeVars == <<homeMounted, homeEpoch, metadata, isLoadingMetadata, metadataError,
              metadataCache, metadataCacheTimestamp, now, metaFetches>>
buildVars == <<mounted, epoch, heroVars, selVars, recVars, heroFetches, requests,
               nextReq, detours, trail, resetAt>>

(***************************************************************************)
(* Sequence helpers (Array.prototype.includes / filter / spread-append).   *)
(***************************************************************************)
Range(s) == {s[i] : i \in 1 .. Len(s)}

Includes(s, id) == \E i \in 1 .. Len(s) : s[i] = id

\* mutant of FilterOut: the first element is dropped, whatever it is
FilterOutFirst(s, id) == IF s = <<>> THEN s ELSE Tail(s)

\* prev.filter((x) => x !== id)
FilterOut(s, id) == SelectSeq(s, LAMBDA x : x # id)

(***************************************************************************)
(* The selection, as one record.                                           *)
(***************************************************************************)
Sel == [stage |-> stage, heroId |-> heroId, laneAllyId |-> laneAllyId,
        teamOtherIds |-> teamOtherIds, laneEnemyIds |-> laneEnemyIds,
        enemyOtherIds |-> enemyOtherIds]

EmptySel == [stage |-> "hero", heroId |-> NoHero, laneAllyId |-> NoHero,
             teamOtherIds |-> <<>>, laneEnemyIds |-> <<>>,
             enemyOtherIds |-> <<>>]

\* mutant of usedHeroIds: the hero slot is forgotten
usedHeroIdsNoHero(s) ==
  (IF s.laneAllyId # NoHero THEN {s.laneAllyId} ELSE {})
    \cup Range(s.teamOtherIds) \cup Range(s.laneEnemyIds)
    \cup Range(s.enemyOtherIds)

\* usedHeroIds: the set of ids held by any slot
usedHeroIds(s) ==
  (IF s.heroId # NoHero THEN {s.heroId} ELSE {})
    \cup (IF s.laneAllyId # NoHero THEN {s.laneAllyId} ELSE {})
    \cup Range(s.teamOtherIds) \cup Range(s.laneEnemyIds)
    \cup Range(s.enemyOtherIds)

\* step 1 of handleHeroClick: the hero is already selected for the current stage
InCurrentStage(s, id) ==
  \/ s.stage = "hero" /\ s.heroId = id
  \/ s.stage = "laneAlly" /\ s.laneAllyId = id
  \/ s.stage = "teamOthers" /\ Includes(s.teamOtherIds, id)
  \/ s.stage = "laneEnemies" /\ Includes(s.laneEnemyIds, id)
  \/ s.stage = "enemyOthers" /\ Includes(s.enemyOtherIds, id)

\* mutant of ToggleOff: a multi-valued slot is emptied
ToggleOffClearsSlot(s, id) ==
  CASE s.stage = "hero" -> [s EXCEPT !.heroId = NoHero]
    [] s.stage = "laneAlly" -> [s EXCEPT !.laneAllyId = NoHero]
    [] s.stage = "teamOthers" -> [s EXCEPT !.teamOtherIds = <<>>]
    [] s.stage = "laneEnemies" -> [s EXCEPT !.laneEnemyIds = <<>>]
    [] s.stage = "enemyOthers" -> [s EXCEPT !.enemyOtherIds = <<>>]

\* step 1 of handleHeroClick: unselect
ToggleOff(s, id) ==
  CASE s.stage = "hero" -> [s EXCEPT !.heroId = NoHero]
    [] s.stage = "laneAlly" -> [s EXCEPT !.laneAllyId = NoHero]
    [] s.stage = "teamOthers" ->
         [s EXCEPT !.teamOtherIds = FilterOut(@, id)]
    [] s.stage = "laneEnemies" ->
         [s EXCEPT !.laneEnemyIds = FilterOut(@, id)]
    [] s.stage = "enemyOthers" ->
         [s EXCEPT !.enemyOtherIds = FilterOut(@, id)]

\* mutant of Assign: a single-valued slot that holds a hero is kept
AssignKeepsHeldHero(s, id) ==
  CASE s.stage = "hero" ->
         IF s.heroId # NoHero THEN s
         ELSE [s EXCEPT !.heroId = id, !.stage = "laneAlly"]
    [] s.stage = "laneAlly" ->
         IF s.laneAllyId # NoHero THEN s
         ELSE [s EXCEPT !.laneAllyId = id, !.stage = "teamOthers"]
    [] s.stage = "teamOthers" ->
         IF Len(s.teamOtherIds) >= MAX_TEAM_OTHERS THEN s
         ELSE [s EXCEPT !.teamOtherIds = Append(@, id),
                        !.stage = IF Len(s.teamOtherIds) + 1 = MAX_TEAM_OTHERS
                                  THEN "laneEnemies" ELSE @]
    [] s.stage = "laneEnemies" ->
         IF Len(s.laneEnemyIds) >= MAX_LANE_ENEMIES THEN s
         ELSE [s EXCEPT !.laneEnemyIds = Append(@, id),
                        !.stage = IF Len(s.laneEnemyIds) + 1 = MAX_LANE_ENEMIES
                                  THEN "enemyOthers" ELSE @]
    [] s.stage = "enemyOthers" ->
         IF Len(s.enemyOtherIds) >= MAX_ENEMY_OTHERS THEN s
         ELSE [s EXCEPT !.enemyOtherIds = Append(@, id)]

\* mutant of Assign: the updaters append without the capacity check
AssignUncapped(s, id) ==
  CASE s.stage = "hero" -> [s EXCEPT !.heroId = id, !.stage = "laneAlly"]
    [] s.stage = "laneAlly" ->
         [s EXCEPT !.laneAllyId = id, !.stage = "teamOthers"]
    [] s.stage = "teamOthers" ->
         [s EXCEPT !.teamOtherIds = Append(@, id),
                   !.stage = IF Len(s.teamOtherIds) + 1 = MAX_TEAM_OTHERS
                             THEN "laneEnemies" ELSE @]
    [] s.stage = "laneEnemies" ->
         [s EXCEPT !.laneEnemyIds = Append(@, id),
                   !.stage = IF Len(s.laneEnemyIds) + 1 = MAX_LANE_ENEMIES
                             THEN "enemyOthers" ELSE @]
    [] s.stage = "enemyOthers" ->
         [s EXCEPT !.enemyOtherIds = Append(@, id)]

\* mutant of Assign: a single-valued stage advances only to an empty slot
AssignStaysAtFilledSlot(s, id) ==
  CASE s.stage = "hero" ->
         [s EXCEPT !.heroId = id,
                   !.stage = IF s.laneAllyId = NoHero THEN "laneAlly" ELSE @]
    [] s.stage = "laneAlly" ->
         [s EXCEPT !.laneAllyId = id,
                   !.stage = IF s.teamOtherIds = <<>> THEN "teamOthers" ELSE @]
    [] s.stage = "teamOthers" ->
         IF Len(s.teamOtherIds) >= MAX_TEAM_OTHERS THEN s
         ELSE [s EXCEPT !.teamOtherIds = Append(@, id),
                        !.stage = IF Len(s.teamOtherIds) + 1 = MAX_TEAM_OTHERS
                                  THEN "laneEnemies" ELSE @]
    [] s.stage = "laneEnemies" ->
         IF Len(s.laneEnemyIds) >= MAX_LANE_ENEMIES THEN s
         ELSE [s EXCEPT !.laneEnemyIds = Append(@, id),
                        !.stage = IF Len(s.laneEnemyIds) + 1 = MAX_LANE_ENEMIES
                                  THEN "enemyOthers" ELSE @]
    [] s.stage = "enemyOthers" ->
         IF Len(s.enemyOtherIds) >= MAX_ENEMY_OTHERS THEN s
         ELSE [s EXCEPT !.enemyOtherIds = Append(@, id)]

\* mutant of Assign: every append to a multi-valued slot advances the stage
AssignAdvancesOnEveryAppend(s, id) ==
  CASE s.stage = "hero" -> [s EXCEPT !.heroId = id, !.stage = "laneAlly"]
    [] s.stage = "laneAlly" ->
         [s EXCEPT !.laneAllyId = id, !.stage = "teamOthers"]
    [] s.stage = "teamOthers" ->
         IF Len(s.teamOtherIds) >= MAX_TEAM_OTHERS THEN s
         ELSE [s EXCEPT !.teamOtherIds = Append(@, id), !.stage = "laneEnemies"]
    [] s.stage = "laneEnemies" ->
         IF Len(s.laneEnemyIds) >= MAX_LANE_ENEMIES THEN s
         ELSE [s EXCEPT !.laneEnemyIds = Append(@, id), !.stage = "enemyOthers"]
    [] s.stage = "enemyOthers" ->
         IF Len(s.enemyOtherIds) >= MAX_ENEMY_OTHERS THEN s
         ELSE [s EXCEPT !.enemyOtherIds = Append(@, id)]

\* mutant of Assign: the updaters put the new id in front ([id, ...prev])
AssignPrepends(s, id) ==
  CASE s.stage = "hero" -> [s EXCEPT !.heroId = id, !.stage = "laneAlly"]
    [] s.stage = "laneAlly" ->
         [s EXCEPT !.laneAllyId = id, !.stage = "teamOthers"]
    [] s.stage = "teamOthers" ->
         IF Len(s.teamOtherIds) >= MAX_TEAM_OTHERS THEN s
         ELSE [s EXCEPT !.teamOtherIds = <<id>> \o @,
                        !.stage = IF Len(s.teamOtherIds) + 1 = MAX_TEAM_OTHERS
                                  THEN "laneEnemies" ELSE @]
    [] s.stage = "laneEnemies" ->
         IF Len(s.laneEnemyIds) >= MAX_LANE_ENEMIES THEN s
         ELSE [s EXCEPT !.laneEnemyIds = <<id>> \o @,
                        !.stage = IF Len(s.laneEnemyIds) + 1 = MAX_LANE_ENEMIES
                                  THEN "enemyOthers" ELSE @]
    [] s.stage = "enemyOthers" ->
         IF Len(s.enemyOtherIds) >= MAX_ENEMY_OTHERS THEN s
         ELSE [s EXCEPT !.enemyOtherIds = <<id>> \o @]

\* step 3 of handleHeroClick: normal assignment + auto-advance
Assign(s, id) ==
  CASE s.stage = "hero" -> [s EXCEPT !.heroId = id, !.stage = "laneAlly"]
    [] s.stage = "laneAlly" ->
         [s EXCEPT !.laneAllyId = id, !.stage = "teamOthers"]
    [] s.stage = "teamOthers" ->
         IF Len(s.teamOtherIds) >= MAX_TEAM_OTHERS THEN s
         ELSE [s EXCEPT !.teamOtherIds = Append(@, id),
                        !.stage = IF Len(s.teamOtherIds) + 1 = MAX_TEAM_OTHERS
                                  THEN "laneEnemies" ELSE @]
    [] s.stage = "laneEnemies" ->
         IF Len(s.laneEnemyIds) >= MAX_LANE_ENEMIES THEN s
         ELSE [s EXCEPT !.laneEnemyIds = Append(@, id),
                        !.stage = IF Len(s.laneEnemyIds) + 1 = MAX_LANE_ENEMIES
                                  THEN "enemyOthers" ELSE @]
    [] s.stage = "enemyOthers" ->
         IF Len(s.enemyOtherIds) >= MAX_ENEMY_OTHERS THEN s
         ELSE [s EXCEPT !.enemyOtherIds = Append(@, id)]

\* mutant of handleHeroClick: step 2, the check against usedHeroIds, is missing
handleHeroClickNoUsedCheck(s, id) ==
  IF InCurrentStage(s, id) THEN ToggleOff(s, id) ELSE Assign(s, id)

\* handleHeroClick(id) as a function of the selection
handleHeroClick(s, id) ==
  IF InCurrentStage(s, id) THEN ToggleOff(s, id)
  ELSE IF id \in usedHeroIds(s) THEN s
  ELSE Assign(s, id)

\* mutant of handleStageClick: the slot of the stage jumped to is emptied
handleStageClickResets(s, next) ==
  CASE next = "hero" -> [s EXCEPT !.stage = next, !.heroId = NoHero]
    [] next = "laneAlly" -> [s EXCEPT !.stage = next, !.laneAllyId = NoHero]
    [] next = "teamOthers" -> [s EXCEPT !.stage = next, !.teamOtherIds = <<>>]
    [] next = "laneEnemies" -> [s EXCEPT !.stage = next, !.laneEnemyIds = <<>>]
    [] next = "enemyOthers" -> [s EXCEPT !.stage = next, !.enemyOtherIds = <<>>]

\* handleStageClick(next) as a function of the selection
handleStageClick(s, next) == [s EXCEPT !.stage = next]

\* mutant of canSubmit: the lane enemies are not counted
canSubmitNoLaneEnemies(s) ==
  /\ s.heroId # NoHero
  /\ s.laneAllyId # NoHero
  /\ Len(s.teamOtherIds) = MAX_TEAM_OTHERS
  /\ Len(s.enemyOtherIds) = MAX_ENEMY_OTHERS

\* getStageCounts, of the selection s: heroId ? 1 : 0 and laneAllyId ? 1 : 0
\* test the truthiness of the id, and 0 is falsy as null is
getStageCounts(st, s) ==
  CASE st = "hero" ->
         [current |-> IF s.heroId # NoHero /\ s.heroId # 0 THEN 1 ELSE 0,
          required |-> 1]
    [] st = "laneAlly" ->
         [current |-> IF s.laneAllyId # NoHero /\ s.laneAllyId # 0 THEN 1 ELSE 0,
          required |-> 1]
    [] st = "teamOthers" ->
         [current |-> Len(s.teamOtherIds), required |-> MAX_TEAM_OTHERS]
    [] st = "laneEnemies" ->
         [current |-> Len(s.laneEnemyIds), required |-> MAX_LANE_ENEMIES]
    [] st = "enemyOthers" ->
         [current |-> Len(s.enemyOtherIds), required |-> MAX_ENEMY_OTHERS]

\* canSubmit, of the selection s
canSubmit(s) ==
  /\ s.heroId # NoHero
  /\ s.laneAllyId # NoHero
  /\ Len(s.teamOtherIds) = MAX_TEAM_OTHERS
  /\ Len(s.laneEnemyIds) = MAX_LANE_ENEMIES
  /\ Len(s.enemyOtherIds) = MAX_ENEMY_OTHERS


(***************************************************************************)
(* Values of the nullable state.                                           *)
(***************************************************************************)
\* null of submitError / heroesError (string | null)
NoError == "null"
\* null of recommendation (RecommendResponse | null)
NoRecommendation == [kind |-> "null"]

\* the body of /api/heroes: the catalog, not yet sorted by name (hero names
\* are modelled by the ids: hero i sorts before hero j iff i < j)
HeroesBody == [i \in 1 .. NumHeroes |-> NumHeroes - i]

\* [...heroesData].sort((a, b) => a.hero_name.localeCompare(b.hero_name))
RECURSIVE SortByName(_)
SortByName(s) ==
  IF s = <<>> THEN <<>>
  ELSE LET m == CHOOSE x \in Range(s) : \A y \in Range(s) : x <= y
       IN <<m>> \o SortByName(SelectSeq(s, LAMBDA x : x # m))

\* data.heroes ?? data, for the wrapped and the bare form of the body
UnwrapHeroes(form, body) ==
  IF form = "wrapped" THEN [heroes |-> body].heroes ELSE body

(***************************************************************************)
(* Initial state: the user is on the landing page, no BuildPage instance   *)
(* exists yet; the component state holds the useState initial values.      *)
(***************************************************************************)
\* what the fetch of /api/recommend settles with: a rejection (transport
\* error), or a response with a status and a body
Statuses == {200, 404, 500}

\* the bodies, by what res.json() makes of them: a RecommendResponse, JSON
\* null, a bare (non-empty) string, an object with neither recommendations
\* nor error, an object with a string error field, an object whose error
\* field is no string, and a body that is not JSON
ResponseBodies ==
  {[json |-> "RecommendResponse"], [json |-> "null"], [json |-> "string"],
   [json |-> "object"],
   [json |-> "error", error |-> "Upstream /recommend error"],
   [json |-> "errorNotString"], [json |-> "invalid"]}

\* every status with every body, and the rejection
AllResponses ==
  {[kind |-> "rejected"]}
    \cup {[kind |-> "response", status |-> s, body |-> b] :
            s \in Statuses, b \in ResponseBodies}

\* the responses of the runs that explore the page as a whole: one of each
\* way handleRecommendClick ends
Responses ==
  {res \in AllResponses :
     \/ res.kind = "rejected"
     \/ res.kind = "response" /\ res.status = 200
          /\ res.body.json \in {"RecommendResponse", "null", "string", "invalid"}
     \/ res.kind = "response" /\ res.status = 500
          /\ res.body.json \in {"error", "invalid"}}

NoResponse == [kind |-> "none"]

\* null of metadata / metadataCache (MetadataPayload | null)
NoMetadata == [kind |-> "null"]

\* no pure function has been called
NoCall == [fn |-> "none"]

NoEvent ==
  [op |-> "none", id |-> NoHero, st |-> "hero", req |-> 0, pre |-> EmptySel,
   res |-> NoResponse, from |-> 0, calls |-> {}]

InitialComponentState ==
  /\ heroes = <<>>
  /\ isLoadingHeroes = FALSE
  /\ heroesError = NoError
  /\ stage = "hero"
  /\ heroId = NoHero
  /\ laneAllyId = NoHero
  /\ teamOtherIds = <<>>
  /\ laneEnemyIds = <<>>
  /\ enemyOtherIds = <<>>
  /\ isSubmitting = FALSE
  /\ recommendation = NoRecommendation
  /\ submitError = NoError
  /\ showBuildView = FALSE

Init ==
  /\ mounted = FALSE
  /\ epoch = 0
  /\ InitialComponentState
  /\ heroFetches = {}
  /\ requests = {}
  /\ nextReq = 0
  /\ detours = 0
  /\ last = NoEvent
  /\ trail = <<>>
  /\ resetAt = 0
  /\ homeMounted = FALSE
  /\ homeEpoch = 0
  /\ metadata = NoMetadata
  /\ isLoadingMetadata = FALSE
  /\ metadataError = NoError
  /\ metadataCache = NoMetadata
  /\ metadataCacheTimestamp = 0
  /\ now = StartMs
  /\ metaFetches = {}
  /\ call = NoCall

\* value of trail once an event other than a click on a new id has changed
\* the selection (clicks that leave the selection as it is are not recorded)
OffTrail == <<NoHero>>

\* an event other than a selection click (the selection before it is not kept)
Event(op) == [NoEvent EXCEPT !.op = op]

\* the settling of a fetch: of the hero catalog, with the state setters the
\* continuation called
Loaded(op, f, calls) ==
  [NoEvent EXCEPT !.op = op, !.from = f.epoch, !.calls = calls]

\* the settling with res of recommendation request r, issued by page
\* instance r.epoch from the selection r.sel, with the state setters the
\* continuation called
Settled(op, r, res, calls) ==
  [NoEvent EXCEPT !.op = op, !.req = r.id, !.pre = r.sel, !.res = res,
                  !.from = r.epoch, !.calls = calls]

\* an event that drops the recommendation held, with the request it answered
Discarded(op) ==
  [NoEvent EXCEPT !.op = op,
                  !.req = IF recommendation = NoRecommendation THEN 0
                          ELSE recommendation.req]

\* a click of the selection view, with the selection it found
Click(op, id, st) == [NoEvent EXCEPT !.op = op, !.id = id, !.st = st, !.pre = Sel]

SetSel(s) ==
  /\ stage' = s.stage
  /\ heroId' = s.heroId
  /\ laneAllyId' = s.laneAllyId
  /\ teamOtherIds' = s.teamOtherIds
  /\ laneEnemyIds' = s.laneEnemyIds
  /\ enemyOtherIds' = s.enemyOtherIds

(***************************************************************************)
(* Lifecycle of the page and the hero catalog load.                        *)
(***************************************************************************)
\* navigation to /build: a new instance renders with the initial state and
\* its effect starts loadHeroes (up to the await of fetch)
Mount ==
  /\ ~mounted
  /\ mounted' = TRUE
  /\ epoch' = epoch + 1
  /\ isLoadingHeroes' = TRUE
  /\ heroesError' = NoError
  /\ heroFetches' = heroFetches \cup {[epoch |-> epoch + 1, cancelled |-> FALSE]}
  /\ UNCHANGED <<homeVars, call>>
  /\ last' = Event("mount")
  /\ UNCHANGED <<heroes, selVars, recVars, requests, nextReq, detours, trail, resetAt>>

\* navigation away: the effect's cleanup sets cancelled, the instance and
\* its state are dropped
Unmount ==
  /\ mounted
  /\ detours < MaxDetours
  /\ mounted' = FALSE
  /\ detours' = detours + 1
  /\ heroFetches' = {IF f.epoch = epoch THEN [f EXCEPT !.cancelled = TRUE] ELSE f :
                       f \in heroFetches}
  /\ heroes' = <<>>
  /\ isLoadingHeroes' = FALSE
  /\ heroesError' = NoError
  /\ SetSel(EmptySel)
  /\ isSubmitting' = FALSE
  /\ recommendation' = NoRecommendation
  /\ submitError' = NoError
  /\ showBuildView' = FALSE
  /\ UNCHANGED <<homeVars, call>>
  /\ last' = Event("unmount")
  /\ trail' = <<>>
  /\ UNCHANGED <<epoch, requests, nextReq, resetAt>>

\* mutant of LoadHeroesOk: setHeroes and setIsLoadingHeroes are not guarded
\* by the cancelled flag, and the torn-down instance's state is the page's
LoadHeroesOkUnguarded(f, form) ==
  /\ f \in heroFetches
  /\ heroFetches' = heroFetches \ {f}
  /\ heroes' = SortByName(UnwrapHeroes(form, HeroesBody))
  /\ isLoadingHeroes' = FALSE
  /\ UNCHANGED <<homeVars, call>>
  /\ last' = Loaded("loadHeroesOk", f,
                    {"setHeroes", "setIsLoadingHeroes"})
  /\ UNCHANGED <<mounted, epoch, heroesError, selVars, recVars, requests,
                 nextReq, detours, trail, resetAt>>

\* loadHeroes after its awaits: a 2xx response whose body decodes
LoadHeroesOk(f, form) ==
  /\ f \in heroFetches
  /\ heroFetches' = heroFetches \ {f}
  /\ IF ~f.cancelled
       THEN /\ heroes' = SortByName(UnwrapHeroes(form, HeroesBody))
            /\ isLoadingHeroes' = FALSE
       ELSE UNCHANGED <<heroes, isLoadingHeroes>>
  /\ UNCHANGED <<homeVars, call>>
  /\ last' = Loaded("loadHeroesOk", f,
                    IF ~f.cancelled THEN {"setHeroes", "setIsLoadingHeroes"} ELSE {})
  /\ UNCHANGED <<mounted, epoch, heroesError, selVars, recVars, requests,
                 nextReq, detours, trail, resetAt>>

\* loadHeroes after its awaits: fetch rejected, non-2xx status, or a body
\* that is not JSON
LoadHeroesFail(f) ==
  /\ f \in heroFetches
  /\ heroFetches' = heroFetches \ {f}
  /\ IF ~f.cancelled
       THEN /\ heroesError' = "Failed to load heroes. Please refresh."
            /\ isLoadingHeroes' = FALSE
       ELSE UNCHANGED <<heroesError, isLoadingHeroes>>
  /\ UNCHANGED <<homeVars, call>>
  /\ last' = Loaded("loadHeroesFail", f,
                    IF ~f.cancelled THEN {"setHeroesError", "setIsLoadingHeroes"}
                    ELSE {})
  /\ UNCHANGED <<mounted, epoch, heroes, selVars, recVars, requests, nextReq,
                 detours, trail, resetAt>>

(***************************************************************************)
(* What the rendered page offers to the user.                              *)
(***************************************************************************)
\* the selection view is rendered (not the build view)
SelectionViewShown == mounted /\ ~showBuildView

\* renderHeroGrid renders the hero cards
HeroGridShown ==
  SelectionViewShown /\ ~isLoadingHeroes /\ heroesError = NoError /\ Len(heroes) > 0

\* the unassigned heroes, in grid order
Unassigned(s) ==
  LET used == usedHeroIds(s) IN SelectSeq(heroes, LAMBDA h : h \notin used)

\* the heroes held by a slot other than the current stage's, in grid order
HeldElsewhere(s) ==
  LET used == usedHeroIds(s)
  IN SelectSeq(heroes, LAMBDA h : h \in used /\ ~InCurrentStage(s, h))

\* the first CardChoices entries of a list of cards
FirstCards(cards) ==
  {cards[i] : i \in 1 .. IF Len(cards) < CardChoices THEN Len(cards) ELSE CardChoices}

\* the hero cards the user clicks: every hero of the current stage's slot,
\* the first CardChoices unassigned heroes and the first CardChoices heroes
\* held by another slot
Clickable(s) ==
  {h \in Range(heroes) : InCurrentStage(s, h)}
    \cup FirstCards(Unassigned(s)) \cup FirstCards(HeldElsewhere(s))

(***************************************************************************)
(* Selection events.                                                       *)
(***************************************************************************)
\* a click that stays on the straight path: the first unassigned card
StraightClick(s, id) == Len(Unassigned(s)) > 0 /\ id = Unassigned(s)[1]

HeroClick(id) ==
  /\ HeroGridShown
  /\ LET straight == StraightClick(Sel, id)
     IN /\ ~straight => detours < MaxDetours
        /\ detours' = IF straight THEN detours ELSE detours + 1
  /\ SetSel(handleHeroClick(Sel, id))
  /\ UNCHANGED <<homeVars, call>>
  /\ last' = Click("handleHeroClick", id, stage)
  /\ trail' = IF handleHeroClick(Sel, id) = Sel THEN trail
               ELSE IF trail = OffTrail \/ id \in Range(trail) THEN OffTrail
               ELSE Append(trail, id)
  /\ UNCHANGED <<mounted, epoch, heroVars, recVars, heroFetches, requests, nextReq,
                 resetAt>>

StageClick(next) ==
  /\ SelectionViewShown
  /\ detours < MaxDetours
  /\ SetSel(handleStageClick(Sel, next))
  /\ showBuildView' = FALSE
  /\ detours' = detours + 1
  /\ UNCHANGED <<homeVars, call>>
  /\ last' = Click("handleStageClick", NoHero, next)
  /\ trail' = OffTrail
  /\ UNCHANGED <<mounted, epoch, heroVars, isSubmitting, recommendation,
                 submitError, heroFetches, requests, nextReq, resetAt>>

\* mutant of ResetAll: the Reset button is not disabled while isSubmitting
ResetAllWhileSubmitting ==
  /\ SelectionViewShown
  /\ detours < MaxDetours
  /\ SetSel(EmptySel)
  /\ recommendation' = NoRecommendation
  /\ submitError' = NoError
  /\ showBuildView' = FALSE
  /\ detours' = detours + 1
  /\ UNCHANGED <<homeVars, call>>
  /\ last' = Discarded("resetAll")
  /\ trail' = <<>>
  /\ resetAt' = nextReq
  /\ UNCHANGED <<mounted, epoch, heroVars, isSubmitting, heroFetches, requests,
                 nextReq>>

\* the Reset button is disabled while isSubmitting
ResetAll ==
  /\ SelectionViewShown
  /\ ~isSubmitting
  /\ detours < MaxDetours
  /\ SetSel(EmptySel)
  /\ recommendation' = NoRecommendation
  /\ submitError' = NoError
  /\ showBuildView' = FALSE
  /\ detours' = detours + 1
  /\ UNCHANGED <<homeVars, call>>
  /\ last' = Discarded("resetAll")
  /\ trail' = <<>>
  /\ resetAt' = nextReq
  /\ UNCHANGED <<mounted, epoch, heroVars, isSubmitting, heroFetches, requests,
                 nextReq>>

(***************************************************************************)
(* The recommendation submission cycle.                                    *)
(***************************************************************************)
\* mutant of RecommendPayload: team_other_ids is filled from laneEnemyIds
RecommendPayloadSwapped(s) ==
  [hero_id |-> s.heroId, lane_ally_id |-> s.laneAllyId,
   team_other_ids |-> s.laneEnemyIds, lane_enemy_ids |-> s.laneEnemyIds,
   enemy_other_ids |-> s.enemyOtherIds, top_k_per_phase |-> TOP_K_PER_PHASE]

\* the payload built by handleRecommendClick
RecommendPayload(s) ==
  [hero_id |-> s.heroId, lane_ally_id |-> s.laneAllyId,
   team_other_ids |-> s.teamOtherIds, lane_enemy_ids |-> s.laneEnemyIds,
   enemy_other_ids |-> s.enemyOtherIds, top_k_per_phase |-> TOP_K_PER_PHASE]

\* mutant of RecommendButtonEnabled: the button stays enabled while submitting
RecommendButtonEnabledWhileSubmitting == canSubmit(Sel)

\* disabled={!canSubmit || isSubmitting} of the Recommend Build button
RecommendButtonEnabled == ~(~canSubmit(Sel) \/ isSubmitting)

\* mutant of RecommendClick: the previous result, error and view are kept
RecommendClickNoClear ==
  /\ SelectionViewShown
  /\ RecommendButtonEnabled
  /\ nextReq < MaxSubmits
  /\ isSubmitting' = TRUE
  /\ requests' = requests \cup
       {[id |-> nextReq + 1, epoch |-> epoch, payload |-> RecommendPayload(Sel),
         sel |-> Sel]}
  /\ nextReq' = nextReq + 1
  /\ UNCHANGED <<homeVars, call>>
  /\ last' = Event("handleRecommendClick")
  /\ UNCHANGED <<mounted, epoch, heroVars, selVars, recommendation, submitError,
                 showBuildView, heroFetches, detours, trail, resetAt>>

\* handleRecommendClick up to the await of fetch
RecommendClick ==
  /\ SelectionViewShown
  /\ RecommendButtonEnabled
  /\ nextReq < MaxSubmits
  /\ IF ~canSubmit(Sel)
       THEN UNCHANGED <<recVars, requests, nextReq>>
       ELSE /\ isSubmitting' = TRUE
            /\ submitError' = NoError
            /\ recommendation' = NoRecommendation
            /\ showBuildView' = FALSE
            /\ requests' = requests \cup
                 {[id |-> nextReq + 1, epoch |-> epoch,
                   payload |-> RecommendPayload(Sel), sel |-> Sel]}
            /\ nextReq' = nextReq + 1
  /\ UNCHANGED <<homeVars, call>>
  /\ last' = Event("handleRecommendClick")
  /\ UNCHANGED <<mounted, epoch, heroVars, selVars, heroFetches, detours, trail, resetAt>>

\* the instance that issued request r is still the mounted one (state
\* updates of an instance that was unmounted are dropped)
Live(r) == mounted /\ r.epoch = epoch

\* res.ok
ResOk(res) == res.kind = "response" /\ res.status >= 200 /\ res.status <= 299

\* res.json() resolves
ParsesAsJson(body) == body.json # "invalid"

\* errBody && typeof errBody === "object" && "error" in errBody &&
\* typeof errBody.error === "string", errBody being null when the body is
\* not JSON
HasStringError(body) == body.json = "error"

\* the try block throws: fetch rejects, the status is not 2xx, or the 2xx
\* body is not JSON
Throws(res) ==
  IF res.kind = "rejected" THEN TRUE
  ELSE IF ~ResOk(res) THEN TRUE
  ELSE ~ParsesAsJson(res.body)

\* mutant of ErrorMessage: the error field of the body is not looked at
ErrorMessageGeneric(res) ==
  IF res.kind = "rejected" THEN "Failed to fetch"
  ELSE IF ~ResOk(res)
         THEN "Recommendation failed with status " \o ToString(res.status)
  ELSE "Unexpected token"

\* err.message of the error caught: the TypeError of a rejected fetch, the
\* Error thrown for a non-2xx status (the body's error field, else the
\* generic text with the status), the SyntaxError of res.json()
ErrorMessage(res) ==
  IF res.kind = "rejected" THEN "Failed to fetch"
  ELSE IF ~ResOk(res)
         THEN IF HasStringError(res.body) THEN res.body.error
              ELSE "Recommendation failed with status " \o ToString(res.status)
  ELSE "Unexpected token"

\* const data: RecommendResponse = await res.json(), for request r: the
\* parsed body, whatever its shape
DecodedBody(r, res) ==
  IF res.body.json = "null" THEN NoRecommendation
  ELSE [kind |-> res.body.json, req |-> r.id]

\* handleRecommendClick after its awaits, 2xx response with a JSON body
RecommendOk(r, res) ==
  /\ r \in requests
  /\ ~Throws(res)
  /\ requests' = requests \ {r}
  /\ IF Live(r)
       THEN /\ recommendation' = DecodedBody(r, res)
            /\ showBuildView' = TRUE
            /\ isSubmitting' = FALSE
            /\ UNCHANGED submitError
       ELSE UNCHANGED recVars
  /\ UNCHANGED <<homeVars, call>>
  /\ last' = Settled("recommendOk", r, res,
                     {"setRecommendation", "setShowBuildView", "setIsSubmitting"})
  /\ UNCHANGED <<mounted, epoch, heroVars, selVars, heroFetches, nextReq, detours,
                 trail, resetAt>>

\* handleRecommendClick after its awaits, catch and finally
\* mutant of RecommendFail: a failed request is sent once more
RecommendFailRetries(r, res) ==
  /\ r \in requests
  /\ Throws(res)
  /\ IF nextReq <= MaxSubmits
       THEN /\ requests' = (requests \ {r}) \cup {[r EXCEPT !.id = nextReq]}
            /\ nextReq' = nextReq + 1
       ELSE /\ requests' = requests \ {r}
            /\ nextReq' = nextReq
  /\ IF Live(r)
       THEN /\ submitError' = ErrorMessage(res)
            /\ isSubmitting' = FALSE
            /\ UNCHANGED <<recommendation, showBuildView>>
       ELSE UNCHANGED recVars
  /\ UNCHANGED <<homeVars, call>>
  /\ last' = Settled("recommendFail", r, res, {"setSubmitError", "setIsSubmitting"})
  /\ UNCHANGED <<mounted, epoch, heroVars, selVars, heroFetches, detours,
                 trail, resetAt>>

RecommendFail(r, res) ==
  /\ r \in requests
  /\ Throws(res)
  /\ requests' = requests \ {r}
  /\ IF Live(r)
       THEN /\ submitError' = ErrorMessage(res)
            /\ isSubmitting' = FALSE
            /\ UNCHANGED <<recommendation, showBuildView>>
       ELSE UNCHANGED recVars
  /\ UNCHANGED <<homeVars, call>>
  /\ last' = Settled("recommendFail", r, res, {"setSubmitError", "setIsSubmitting"})
  /\ UNCHANGED <<mounted, epoch, heroVars, selVars, heroFetches, nextReq, detours,
                 trail, resetAt>>

\* renderRecommendations throws: recommendation is neither null nor an
\* object with recommendations, so recs[phase] reads a property of undefined
\* and the page is replaced by the error screen
RenderThrows ==
  /\ mounted /\ showBuildView /\ ~isSubmitting /\ submitError = NoError
  /\ recommendation # NoRecommendation
  /\ recommendation.kind # "RecommendResponse"

\* the Back button of the build view
BackFromBuild ==
  /\ mounted
  /\ showBuildView
  /\ ~RenderThrows
  /\ showBuildView' = FALSE
  /\ UNCHANGED <<homeVars, call>>
  /\ last' = Event("handleBackFromBuild")
  /\ UNCHANGED <<mounted, epoch, heroVars, selVars, isSubmitting, recommendation,
                 submitError, heroFetches, requests, nextReq, detours, trail,
                 resetAt>>

Next ==
  \/ Mount
  \/ Unmount
  \/ \E f \in heroFetches : \E form \in {"wrapped", "bare"} : LoadHeroesOk(f, form)
  \/ \E f \in heroFetches : LoadHeroesFail(f)
  \/ \E id \in Clickable(Sel) : HeroClick(id)
  \/ \E next \in SelectionStage : StageClick(next)
  \/ ResetAll
  \/ RecommendClick
  \/ \E r \in requests : \E res \in Responses : RecommendOk(r, res)
  \/ \E r \in requests : \E res \in Responses : RecommendFail(r, res)
  \/ BackFromBuild

Spec == Init /\ [][Next]_vars

\* every fetch of /api/recommend eventually resolves or rejects
SpecLive ==
  /\ Init /\ [][Next]_vars
  /\ WF_vars(\E r \in requests : \E res \in Responses :
               RecommendOk(r, res) \/ RecommendFail(r, res))

\* the submission cycle with every response of the boundary: the slots are
\* filled along the straight path
NextResponses ==
  \/ Mount
  \/ Unmount
  \/ \E f \in heroFetches : LoadHeroesOk(f, "wrapped")
  \/ \E id \in Clickable(Sel) : StraightClick(Sel, id) /\ HeroClick(id)
  \/ RecommendClick
  \/ \E r \in requests : \E res \in AllResponses : RecommendOk(r, res)
  \/ \E r \in requests : \E res \in AllResponses : RecommendFail(r, res)
  \/ BackFromBuild

SpecResponses == Init /\ [][NextResponses]_vars

\* the one place that renders submitError: the recommendation area of the
\* build view, when isSubmitting is false
SubmitErrorDisplayed ==
  mounted /\ showBuildView /\ ~isSubmitting /\ submitError # NoError

(***************************************************************************)
(* The landing page (HomePage) and its module-level metadata cache.        *)
(***************************************************************************)
\* the payloads /api/metadata answers with, told apart by model_version
MetadataPayloads == {[model_version |-> "v1"], [model_version |-> "v2"]}

\* temp.model_metadata ?? temp, for the wrapped and the bare form of the body
UnwrapMetadata(form, payload) ==
  IF form = "wrapped" THEN [model_metadata |-> payload].model_metadata
  ELSE payload

\* mutant of isCacheFresh: a value of exactly the TTL's age still counts
isCacheFreshAtTtl ==
  metadataCache # NoMetadata
    /\ now - metadataCacheTimestamp <= METADATA_CACHE_TTL_MS

\* metadataCache && now - metadataCacheTimestamp < METADATA_CACHE_TTL_MS
isCacheFresh ==
  metadataCache # NoMetadata
    /\ now - metadataCacheTimestamp < METADATA_CACHE_TTL_MS

\* the settling of a metadata fetch, with the payload decoded (if any) and
\* the writes the continuation made
HomeLoaded(op, f, res, calls) ==
  [NoEvent EXCEPT !.op = op, !.from = f.epoch, !.res = res, !.calls = calls]

\* navigation to /: a new instance renders with the initial state, and its
\* effect either shows the fresh cached value or starts
\* fetchAndCacheMetadata (up to the await of fetch)
HomeMount ==
  /\ ~homeMounted
  /\ homeEpoch < MaxHomeMounts
  /\ homeMounted' = TRUE
  /\ homeEpoch' = homeEpoch + 1
  /\ IF isCacheFresh
       THEN /\ metadata' = metadataCache
            /\ UNCHANGED <<isLoadingMetadata, metadataError, metaFetches>>
       ELSE /\ isLoadingMetadata' = TRUE
            /\ metadataError' = NoError
            /\ metaFetches' = metaFetches \cup
                 {[epoch |-> homeEpoch + 1, cancelled |-> FALSE]}
            /\ UNCHANGED metadata
  /\ last' = Event("homeMount")
  /\ UNCHANGED <<metadataCache, metadataCacheTimestamp, now, buildVars, call>>

\* navigation away from /: the cleanup sets cancelled, the instance and its
\* state are dropped; the module-level cache stays
HomeUnmount ==
  /\ homeMounted
  /\ homeMounted' = FALSE
  /\ metaFetches' = {IF f.epoch = homeEpoch THEN [f EXCEPT !.cancelled = TRUE]
                     ELSE f : f \in metaFetches}
  /\ metadata' = NoMetadata
  /\ isLoadingMetadata' = FALSE
  /\ metadataError' = NoError
  /\ last' = Event("homeUnmount")
  /\ UNCHANGED <<homeEpoch, metadataCache, metadataCacheTimestamp, now, buildVars,
                 call>>

\* mutant of MetadataOk: the cache is written whether cancelled or not
MetadataOkCachesAlways(f, form, payload) ==
  /\ f \in metaFetches
  /\ metaFetches' = metaFetches \ {f}
  /\ metadataCache' = UnwrapMetadata(form, payload)
  /\ metadataCacheTimestamp' = now
  /\ IF ~f.cancelled
       THEN /\ metadata' = UnwrapMetadata(form, payload)
            /\ isLoadingMetadata' = FALSE
       ELSE UNCHANGED <<metadata, isLoadingMetadata>>
  /\ last' = HomeLoaded("metadataOk", f,
                        [kind |-> "metadata", body |-> UnwrapMetadata(form, payload)],
                        IF ~f.cancelled
                          THEN {"metadataCache", "metadataCacheTimestamp",
                                "setMetadata", "setIsLoadingMetadata"}
                          ELSE {})
  /\ UNCHANGED <<homeMounted, homeEpoch, metadataError, now, buildVars, call>>

\* mutant of MetadataOk: the value is cached, the timestamp is left as it was
MetadataOkKeepsTimestamp(f, form, payload) ==
  /\ f \in metaFetches
  /\ metaFetches' = metaFetches \ {f}
  /\ IF ~f.cancelled
       THEN /\ metadataCache' = UnwrapMetadata(form, payload)
            /\ UNCHANGED metadataCacheTimestamp
            /\ metadata' = UnwrapMetadata(form, payload)
            /\ isLoadingMetadata' = FALSE
       ELSE UNCHANGED <<metadataCache, metadataCacheTimestamp, metadata,
                        isLoadingMetadata>>
  /\ last' = HomeLoaded("metadataOk", f,
                        [kind |-> "metadata", body |-> UnwrapMetadata(form, payload)],
                        IF ~f.cancelled
                          THEN {"metadataCache", "metadataCacheTimestamp",
                                "setMetadata", "setIsLoadingMetadata"}
                          ELSE {})
  /\ UNCHANGED <<homeMounted, homeEpoch, metadataError, now, buildVars, call>>

\* fetchAndCacheMetadata after its awaits: a 2xx response whose body decodes
MetadataOk(f, form, payload) ==
  /\ f \in metaFetches
  /\ metaFetches' = metaFetches \ {f}
  /\ IF ~f.cancelled
       THEN /\ metadataCache' = UnwrapMetadata(form, payload)
            /\ metadataCacheTimestamp' = now
            /\ metadata' = UnwrapMetadata(form, payload)
            /\ isLoadingMetadata' = FALSE
       ELSE UNCHANGED <<metadataCache, metadataCacheTimestamp, metadata,
                        isLoadingMetadata>>
  /\ last' = HomeLoaded("metadataOk", f,
                        [kind |-> "metadata", body |-> UnwrapMetadata(form, payload)],
                        IF ~f.cancelled
                          THEN {"metadataCache", "metadataCacheTimestamp",
                                "setMetadata", "setIsLoadingMetadata"}
                          ELSE {})
  /\ UNCHANGED <<homeMounted, homeEpoch, metadataError, now, buildVars, call>>

\* fetchAndCacheMetadata after its awaits: fetch rejected, non-2xx status,
\* or a body that does not decode
\* mutant of MetadataFail: a failed fetch empties the cache
MetadataFailClearsCache(f) ==
  /\ f \in metaFetches
  /\ metaFetches' = metaFetches \ {f}
  /\ IF ~f.cancelled
       THEN /\ metadataError' = "Unable to load latest model stats."
            /\ isLoadingMetadata' = FALSE
            /\ metadataCache' = NoMetadata
            /\ metadataCacheTimestamp' = 0
       ELSE UNCHANGED <<metadataError, isLoadingMetadata, metadataCache,
                        metadataCacheTimestamp>>
  /\ last' = HomeLoaded("metadataFail", f, NoResponse,
                        IF ~f.cancelled
                          THEN {"setMetadataError", "setIsLoadingMetadata"}
                          ELSE {})
  /\ UNCHANGED <<homeMounted, homeEpoch, metadata, now, buildVars, call>>

MetadataFail(f) ==
  /\ f \in metaFetches
  /\ metaFetches' = metaFetches \ {f}
  /\ IF ~f.cancelled
       THEN /\ metadataError' = "Unable to load latest model stats."
            /\ isLoadingMetadata' = FALSE
       ELSE UNCHANGED <<metadataError, isLoadingMetadata>>
  /\ last' = HomeLoaded("metadataFail", f, NoResponse,
                        IF ~f.cancelled
                          THEN {"setMetadataError", "setIsLoadingMetadata"}
                          ELSE {})
  /\ UNCHANGED <<homeMounted, homeEpoch, metadata, metadataCache,
                 metadataCacheTimestamp, now, buildVars, call>>

\* time passes
Tick ==
  /\ now < StartMs + MaxTicks * TickMs
  /\ now' = now + TickMs
  /\ last' = Event("tick")
  /\ UNCHANGED <<homeMounted, homeEpoch, metadata, isLoadingMetadata,
                 metadataError, metadataCache, metadataCacheTimestamp,
                 metaFetches, buildVars, call>>

NextHome ==
  \/ HomeMount
  \/ HomeUnmount
  \/ \E f \in metaFetches : \E form \in {"wrapped", "bare"} :
       \E payload \in MetadataPayloads : MetadataOk(f, form, payload)
  \/ \E f \in metaFetches : MetadataFail(f)
  \/ Tick

SpecHome == Init /\ [][NextHome]_vars

(***************************************************************************)
(* The two pages together: / and /build are routes of one app, so one of  *)
(* them is mounted at a time, while the fetches either page started stay   *)
(* in flight across the navigation.                                        *)
(***************************************************************************)
NextSite ==
  \/ ~homeMounted /\ Mount
  \/ Unmount
  \/ \E f \in heroFetches : LoadHeroesOk(f, "wrapped")
  \/ \E f \in heroFetches : LoadHeroesFail(f)
  \/ \E id \in Clickable(Sel) : StraightClick(Sel, id) /\ HeroClick(id)
  \/ RecommendClick
  \/ \E r \in requests : \E res \in Responses : RecommendOk(r, res)
  \/ \E r \in requests : \E res \in Responses : RecommendFail(r, res)
  \/ BackFromBuild
  \/ ~mounted /\ HomeMount
  \/ HomeUnmount
  \/ \E f \in metaFetches : MetadataOk(f, "wrapped", [model_version |-> "v1"])
  \/ \E f \in metaFetches : MetadataFail(f)

SpecSite == Init /\ [][NextSite]_vars

\* what the landing page displays of the metadata: the model version (or
\* the fallback), and the error line
displayVersion ==
  IF metadata # NoMetadata THEN metadata.model_version ELSE "Unknown"

MetadataErrorDisplayed == homeMounted /\ metadataError # NoError

(***************************************************************************)
(* The pure functions of the result view.  Numbers are fixed-point, in     *)
(* units of 1/Unit: 0.873 is 87300, 87.3 is 8730000, 0.0005 is 50.         *)
(***************************************************************************)
Unit == 100000

\* number | null | undefined, and NaN
Null == [kind |-> "null"]
NaN == [kind |-> "NaN"]
Num(u) == [kind |-> "number", units |-> u]

\* the characters U+2014 and U+2212 of the source, spelled in ASCII; the
\* minus sign is not the "-" that toFixed writes
EmDash == "[U+2014]"
MinusSign == "[U+2212]"

Abs(u) == IF u < 0 THEN -u ELSE u

RECURSIVE Pow10(_)
Pow10(e) == IF e = 0 THEN 1 ELSE 10 * Pow10(e - 1)

\* Object.keys(PHASE_LABELS), in insertion order
PhaseKeys == <<"early", "mid", "late", "very_late">>

PHASE_LABELS ==
  [early |-> "Early Game", mid |-> "Mid Game", late |-> "Late Game",
   very_late |-> "Very Late Game"]

\* a phase's value in a response: a list of items (item ids here) or null
ItemList(items) == [kind |-> "list", items |-> items]

\* mutant of renderPhases: only the keys the response has are rendered
renderPhasesOfResponseKeys(recs) ==
  LET present == SelectSeq(PhaseKeys, LAMBDA phase : phase \in DOMAIN recs)
  IN [i \in 1..Len(present) |->
        LET phase == present[i]
            items == IF recs[phase] # Null THEN recs[phase].items ELSE <<>>
        IN [key |-> phase,
            header |-> PHASE_LABELS[phase],
            empty |-> Len(items) = 0,
            cards |-> items]]

\* the rows of renderRecommendations: one per key of PHASE_LABELS, with
\* items = recs[phase] ?? [], the text "No items for this phase." when
\* items is empty and one card per item otherwise
renderPhases(recs) ==
  [i \in 1..Len(PhaseKeys) |->
     LET phase == PhaseKeys[i]
         items == IF phase \in DOMAIN recs /\ recs[phase] # Null
                    THEN recs[phase].items ELSE <<>>
     IN [key |-> phase,
         header |-> PHASE_LABELS[phase],
         empty |-> Len(items) = 0,
         cards |-> items]]

\* (p / Unit).toFixed(1) for p >= 0 that is not half way between two tenths
FixedTenths(p) == (p + Unit \div 20) \div (Unit \div 10)

\* Number.prototype.toFixed(1): "-" and the digits of -x for x < 0 (so a
\* negative x that rounds to zero gives "-0.0"), else the digits of the
\* nearest tenth
toFixed1(p) ==
  LET t == FixedTenths(Abs(p))
  IN (IF p < 0 THEN "-" ELSE "") \o ToString(t \div 10) \o "." \o ToString(t % 10)

\* a value whose percentage lies half way between two tenths: which tenth
\* toFixed gives then depends on the binary representation of the value,
\* so these values are kept out of the inputs
IsTie(u) ==
  LET p == IF u <= Unit THEN u * 100 ELSE u
  IN Abs(p) % (Unit \div 10) = Unit \div 20

\* mutant of formatPercent: only the values in [0,1] are multiplied
formatPercentOfUnitInterval(value) ==
  IF value = Null \/ value = NaN THEN EmDash
  ELSE LET v == IF 0 <= value.units /\ value.units <= Unit
                  THEN value.units * 100 ELSE value.units
       IN toFixed1(v) \o "%"

\* formatPercent: value <= 1 ? value * 100 : value, with one decimal place
formatPercent(value) ==
  IF value = Null \/ value = NaN THEN EmDash
  ELSE LET v == IF value.units <= Unit THEN value.units * 100 ELSE value.units
       IN toFixed1(v) \o "%"

\* mutant of hasSynergy: a delta of exactly 0.0005 counts
hasSynergyFromThreshold(item) ==
  /\ item.synergy_delta_wr # Null
  /\ Abs(item.synergy_delta_wr.units) >= 50

\* item.synergy_delta_wr != null && Math.abs(item.synergy_delta_wr) > 0.0005
hasSynergy(item) ==
  /\ item.synergy_delta_wr # Null
  /\ Abs(item.synergy_delta_wr.units) > 50

\* (item.synergy_delta_wr ?? 0) >= 0
synergyPositive(item) ==
  (IF item.synergy_delta_wr # Null THEN item.synergy_delta_wr.units ELSE 0) >= 0

synergyDisplay(item) ==
  IF hasSynergy(item)
    THEN (IF synergyPositive(item) THEN "+" ELSE MinusSign)
           \o formatPercent(Num(Abs(item.synergy_delta_wr.units)))
    ELSE "null"

flowDisplay(item) ==
  IF item.transition_prob_from_prev # Null
    THEN formatPercent(item.transition_prob_from_prev)
    ELSE "null"

\* mutant of highlightBlock: the flow is preferred when both qualify
highlightBlockPrefersFlow(item, showItemStats) ==
  IF ~showItemStats THEN [shown |-> FALSE]
  ELSE IF ~(hasSynergy(item) \/ flowDisplay(item) # "null") THEN [shown |-> FALSE]
  ELSE LET flow == flowDisplay(item) # "null"
       IN [shown |-> TRUE,
           className |-> IF ~flow
                           THEN IF synergyPositive(item)
                                  THEN "item-stat-block--positive"
                                  ELSE "item-stat-block--negative"
                           ELSE "",
           label |-> IF ~flow THEN "Synergy" ELSE "Flow",
           main |-> IF ~flow THEN synergyDisplay(item) ELSE flowDisplay(item),
           sub |-> IF ~flow THEN "vs global" ELSE "after previous"]

\* block 3 of an item row, the Synergy / Flow highlight; the simple view
\* (showItemStats false) renders the card alone
highlightBlock(item, showItemStats) ==
  IF ~showItemStats THEN [shown |-> FALSE]
  ELSE IF ~(hasSynergy(item) \/ flowDisplay(item) # "null") THEN [shown |-> FALSE]
  ELSE [shown |-> TRUE,
        className |-> IF hasSynergy(item)
                        THEN IF synergyPositive(item)
                               THEN "item-stat-block--positive"
                               ELSE "item-stat-block--negative"
                        ELSE "",
        label |-> IF hasSynergy(item) THEN "Synergy" ELSE "Flow",
        main |-> IF hasSynergy(item) THEN synergyDisplay(item)
                 ELSE flowDisplay(item),
        sub |-> IF hasSynergy(item) THEN "vs global" ELSE "after previous"]

\* a tier, a whole number
Tier(n) == [kind |-> "number", value |-> n]

Undefined == [kind |-> "undefined"]

\* TIER_ROMAN, keyed 1 to 5
TIER_ROMAN == <<"I", "II", "III", "IV", "V">>

\* mutant of tierToRoman: a tier without a numeral renders as nothing
tierToRomanOfMappedOnly(tier) ==
  IF tier \in {Null, Undefined} THEN ""
  ELSE IF tier.value = 0 \/ tier.value <= 0 THEN ""
  ELSE IF tier.value \in DOMAIN TIER_ROMAN THEN TIER_ROMAN[tier.value]
  ELSE ""

\* tierToRoman: "" for a falsy or non-positive tier, else
\* TIER_ROMAN[tier] ?? String(tier)
tierToRoman(tier) ==
  IF tier \in {Null, Undefined} THEN ""
  ELSE IF tier.value = 0 \/ tier.value <= 0 THEN ""
  ELSE IF tier.value \in DOMAIN TIER_ROMAN THEN TIER_ROMAN[tier.value]
  ELSE ToString(tier.value)

\* the tiers converted: null, undefined and the whole numbers up to MaxTier
\* of either sign
Tiers == {Null, Undefined} \cup {Tier(n) : n \in -MaxTier..MaxTier}

TierToRomanCall(tier) ==
  /\ call = NoCall
  /\ call' = [fn |-> "tierToRoman", arg |-> tier, out |-> tierToRoman(tier)]
  /\ UNCHANGED <<buildVars, homeVars, last>>

\* the two forms of the body of GET /api/heroes, as res.json() gives them:
\* an object with the property heroes, or the array itself
WrappedHeroes(list) == [kind |-> "object", heroes |-> ItemList(list)]
BareHeroes(list) == [kind |-> "array", items |-> list]

\* data.heroes: an array has no such property
HeroesProperty(data) ==
  IF data.kind = "object" THEN data.heroes ELSE Undefined

\* loadHeroes of the build page: data.heroes ?? data
loadHeroesData(data) ==
  IF HeroesProperty(data) \notin {Null, Undefined} THEN HeroesProperty(data)
  ELSE ItemList(data.items)

\* fetchHeroes of the client library: return data.heroes as HeroAsset[]
fetchHeroes(data) == HeroesProperty(data)

\* the bodies read: the first heroes of HeroesBody, in either form
HeroesBodies ==
  {WrappedHeroes(SubSeq(HeroesBody, 1, n)) : n \in 0..NumHeroes} \cup
  {BareHeroes(SubSeq(HeroesBody, 1, n)) : n \in 0..NumHeroes}

LoadHeroesDataCall(data) ==
  /\ call = NoCall
  /\ call' = [fn |-> "loadHeroes", arg |-> data, out |-> loadHeroesData(data)]
  /\ UNCHANGED <<buildVars, homeVars, last>>

FetchHeroesCall(data) ==
  /\ call = NoCall
  /\ call' = [fn |-> "fetchHeroes", arg |-> data, out |-> fetchHeroes(data)]
  /\ UNCHANGED <<buildVars, homeVars, last>>

(***************************************************************************)
(* The proxy POST /api/recommend.                                          *)
(***************************************************************************)
\* what the upstream call settles with: a rejection, or a status and a
\* text that is empty, JSON, or not JSON
UpstreamStatuses == {200, 201, 204, 304, 400, 404, 500, 503}

UpstreamOutcomes ==
  {[kind |-> "rejected"]} \cup
  [kind : {"response"}, status : UpstreamStatuses,
   text : {"empty", "json", "notJson"}]

\* the request of the browser: a body request.json() can read, or not
ProxyRequests == {[body |-> "json"], [body |-> "notJson"]}

\* data = text ? JSON.parse(text) : null, and data = text when the parse
\* throws
ParseUpstream(text) ==
  CASE text = "empty" -> [json |-> "null"]
    [] text = "json" -> [json |-> "value"]
    [] text = "notJson" -> [json |-> "string"]

\* upstream.ok
UpstreamOk(up) == up.status \in 200..299

\* the statuses a Response with a body cannot have: NextResponse.json
\* (Response.json) throws a TypeError for them
NullBodyStatuses == {101, 103, 204, 205, 304}

InternalError ==
  [status |-> 500,
   body |-> [json |-> "object", error |-> "Internal error in /api/recommend"]]

\* POST: the response of the proxy, with the number of upstream calls made
\* and whether x-api-key was attached to them (AWS_API_KEY is non-empty, or
\* the module throws when it is loaded)
POST(request, up) ==
  IF request.body = "notJson"
    THEN [response |-> InternalError, upstreamCalls |-> 0, apiKey |-> FALSE]
  ELSE IF up.kind = "rejected"
    THEN [response |-> InternalError, upstreamCalls |-> 1, apiKey |-> TRUE]
  ELSE IF ~UpstreamOk(up)
    THEN [response |->
            IF up.status \in NullBodyStatuses THEN InternalError
            ELSE [status |-> up.status,
                  body |-> [json |-> "object",
                            error |-> "Upstream /recommend error",
                            status |-> up.status,
                            body |-> ParseUpstream(up.text)]],
          upstreamCalls |-> 1, apiKey |-> TRUE]
  ELSE [response |-> [status |-> 200, body |-> ParseUpstream(up.text)],
        upstreamCalls |-> 1, apiKey |-> TRUE]

ProxyPostCall(request, up) ==
  /\ call = NoCall
  /\ call' = [fn |-> "POST", arg |-> [request |-> request, upstream |-> up],
              out |-> POST(request, up)]
  /\ UNCHANGED <<buildVars, homeVars, last>>

\* the responses rendered: every phase key absent, null or a list of up to
\* MaxItems items
PhaseValues == {Null} \cup {ItemList([i \in 1..n |-> i]) : n \in 0..MaxItems}

PhaseKeySet == {PhaseKeys[i] : i \in 1..Len(PhaseKeys)}

Recommendations == UNION {[D -> PhaseValues] : D \in SUBSET PhaseKeySet}

\* the values formatted: up to MaxMantissa with up to four zeros behind
\* (0.00001 to 99.9 for three digits), of either sign, ties left out, and
\* null and NaN
Exponents == 0..4

PercentValues ==
  {Null, NaN} \cup
  {Num(u) : u \in {v \in {s * m * Pow10(e) : s \in {-1, 1}, m \in 0..MaxMantissa,
                                            e \in Exponents} :
                     ~IsTie(v)}}

\* the items highlighted: synergy deltas around the threshold, with and
\* without a transition probability
HighlightItems ==
  [synergy_delta_wr : {Null} \cup {Num(d * 10) : d \in -MaxDelta..MaxDelta}
                             \cup {Num(d) : d \in {-51, -49, 49, 51}},
   transition_prob_from_prev : {Null, Num(42000)}]

RenderRecommendationsCall(recs) ==
  /\ call = NoCall
  /\ call' = [fn |-> "renderRecommendations", arg |-> recs,
              out |-> renderPhases(recs)]
  /\ UNCHANGED <<buildVars, homeVars, last>>

FormatPercentCall(value) ==
  /\ call = NoCall
  /\ call' = [fn |-> "formatPercent", arg |-> value, out |-> formatPercent(value)]
  /\ UNCHANGED <<buildVars, homeVars, last>>

HighlightBlockCall(item, showItemStats) ==
  /\ call = NoCall
  /\ call' = [fn |-> "highlightBlock",
              arg |-> [item |-> item, showItemStats |-> showItemStats],
              out |-> highlightBlock(item, showItemStats)]
  /\ UNCHANGED <<buildVars, homeVars, last>>

\* one call per behaviour: the functions keep no state between calls
NextPure ==
  \/ \E recs \in Recommendations : RenderRecommendationsCall(recs)
  \/ \E value \in PercentValues : FormatPercentCall(value)
  \/ \E tier \in Tiers : TierToRomanCall(tier)
  \/ \E data \in HeroesBodies : LoadHeroesDataCall(data)
  \/ \E data \in HeroesBodies : FetchHeroesCall(data)
  \/ \E request \in ProxyRequests : \E up \in UpstreamOutcomes :
       ProxyPostCall(request, up)
  \/ \E item \in HighlightItems : \E showItemStats \in BOOLEAN :
       HighlightBlockCall(item, showItemStats)

SpecPure == Init /\ [][NextPure]_vars

(***************************************************************************)
(* Vocabulary of the properties, stated on the slots themselves.           *)
(***************************************************************************)
\* the ids of all five slots, hero first, as one sequence
SlotIdSeq(s) ==
  (IF s.heroId # NoHero THEN <<s.heroId>> ELSE <<>>)
    \o (IF s.laneAllyId # NoHero THEN <<s.laneAllyId>> ELSE <<>>)
    \o s.teamOtherIds \o s.laneEnemyIds \o s.enemyOtherIds

NoDuplicates(q) == \A i, j \in 1 .. Len(q) : i # j => q[i] # q[j]

\* the value of the slot governed by stage st
SlotValue(s, st) ==
  CASE st = "hero" -> s.heroId
    [] st = "laneAlly" -> s.laneAllyId
    [] st = "teamOthers" -> s.teamOtherIds
    [] st = "laneEnemies" -> s.laneEnemyIds
    [] st = "enemyOthers" -> s.enemyOtherIds

SingleValued == {"hero", "laneAlly"}
MultiValued == {"teamOthers", "laneEnemies", "enemyOthers"}

\* the ids held by the slot governed by stage st
SlotIds(s, st) ==
  IF st \in SingleValued
    THEN (IF SlotValue(s, st) = NoHero THEN {} ELSE {SlotValue(s, st)})
    ELSE {SlotValue(s, st)[i] : i \in 1 .. Len(SlotValue(s, st))}

\* the ids held by any slot
AllSlotIds(s) == UNION {SlotIds(s, st) : st \in SelectionStage}

\* the last event was handleHeroClick(last.id) on the selection last.pre
Clicked == last.op = "handleHeroClick"

(***************************************************************************)
(* C1. Uniqueness: in every reachable state no hero id is held by more     *)
(* than one of the five slots, and none twice inside one slot.             *)
(***************************************************************************)
C1_Uniqueness == NoDuplicates(SlotIdSeq(Sel))

\* a click on a hero held by another slot has happened on a full selection
C1_Witness ==
  /\ Clicked
  /\ Len(SlotIdSeq(Sel)) = 12
  /\ last.id \in AllSlotIds(last.pre) \ SlotIds(last.pre, last.pre.stage)

(***************************************************************************)
(* C2. Capacity: teamOtherIds never holds more than 4 ids, laneEnemyIds    *)
(* never more than 2, enemyOtherIds never more than 4; a click on a new id *)
(* in a multi-valued stage whose slot is at capacity leaves that sequence  *)
(* unchanged.                                                              *)
(***************************************************************************)
C2_AtCapacityNewId ==
  /\ Clicked
  /\ last.pre.stage \in MultiValued
  /\ last.id \notin AllSlotIds(last.pre)
  /\ Len(SlotValue(last.pre, last.pre.stage))
       = (CASE last.pre.stage = "teamOthers" -> 4
            [] last.pre.stage = "laneEnemies" -> 2
            [] last.pre.stage = "enemyOthers" -> 4)

C2_Capacity ==
  /\ Len(teamOtherIds) <= 4
  /\ Len(laneEnemyIds) <= 2
  /\ Len(enemyOtherIds) <= 4
  /\ C2_AtCapacityNewId =>
       SlotValue(Sel, last.pre.stage) = SlotValue(last.pre, last.pre.stage)

\* a new id was clicked in stage teamOthers with four allies already held
C2_Witness == C2_AtCapacityNewId /\ last.pre.stage = "teamOthers"

(***************************************************************************)
(* C3. Completeness gate: canSubmit is true exactly when heroId and        *)
(* laneAllyId are set and the three sequences hold 4, 2 and 4 ids; it is   *)
(* false when one slot is short by one hero.                               *)
(***************************************************************************)
C3_AllFull(s) ==
  /\ s.heroId \in HeroIds
  /\ s.laneAllyId \in HeroIds
  /\ Len(s.teamOtherIds) = 4
  /\ Len(s.laneEnemyIds) = 2
  /\ Len(s.enemyOtherIds) = 4

\* exactly one slot misses exactly one hero
C3_ShortByOne(s) ==
  LET missing == <<IF s.heroId \in HeroIds THEN 0 ELSE 1,
                   IF s.laneAllyId \in HeroIds THEN 0 ELSE 1,
                   4 - Len(s.teamOtherIds), 2 - Len(s.laneEnemyIds),
                   4 - Len(s.enemyOtherIds)>>
  IN missing[1] + missing[2] + missing[3] + missing[4] + missing[5] = 1

C3_CompletenessGate ==
  /\ canSubmit(Sel) <=> C3_AllFull(Sel)
  /\ C3_ShortByOne(Sel) => ~canSubmit(Sel)
  /\ Clicked => (canSubmit(last.pre) <=> C3_AllFull(last.pre))

\* a click has completed a selection that was short by one hero
C3_Witness ==
  /\ Clicked
  /\ C3_ShortByOne(last.pre)
  /\ ~canSubmit(last.pre)
  /\ canSubmit(Sel)

(***************************************************************************)
(* C4. A recommendation request is issued only from a complete selection:  *)
(* handleRecommendClick sends nothing unless canSubmit, and every request  *)
(* carries hero_id, lane_ally_id, 4 team_other_ids, 2 lane_enemy_ids and   *)
(* 4 enemy_other_ids, the 12 ids pairwise distinct.                        *)
(***************************************************************************)
C4_PayloadIds(p) ==
  <<p.hero_id, p.lane_ally_id>> \o p.team_other_ids \o p.lane_enemy_ids
    \o p.enemy_other_ids

C4_CompletePayload(p) ==
  /\ p.hero_id \in HeroIds
  /\ p.lane_ally_id \in HeroIds
  /\ Len(p.team_other_ids) = 4
  /\ Len(p.lane_enemy_ids) = 2
  /\ Len(p.enemy_other_ids) = 4
  /\ \A i \in 1 .. Len(C4_PayloadIds(p)) : C4_PayloadIds(p)[i] \in HeroIds
  /\ NoDuplicates(C4_PayloadIds(p))

C4_RequestOnlyFromComplete ==
  /\ \A r \in requests : C4_CompletePayload(r.payload)
  /\ last.op = "handleRecommendClick" =>
       /\ C3_AllFull(Sel)
       /\ \E r \in requests :
            /\ r.id = nextReq
            /\ C4_PayloadIds(r.payload) = SlotIdSeq(Sel)

\* a request has just been issued
C4_Witness ==
  /\ last.op = "handleRecommendClick"
  /\ \E r \in requests : r.id = nextReq /\ r.epoch = epoch

(***************************************************************************)
(* C5. Stale-result guard: when submission A is issued, submission B is    *)
(* issued before A resolves and A resolves after B, the recommendation     *)
(* held afterwards is B's, never A's: a recommendation held by the page is *)
(* always the result of the request issued last.                           *)
(***************************************************************************)
C5_StaleResultGuard ==
  recommendation # NoRecommendation => recommendation.req = nextReq

\* request A has just resolved with a result, after the later request B
\* resolved, and B's result is the one held and shown
C5_Witness ==
  /\ last.op = "recommendOk"
  /\ last.req < nextReq
  /\ requests = {}
  /\ showBuildView
  /\ recommendation.kind = "RecommendResponse"
  /\ recommendation.req = nextReq

(***************************************************************************)
(* C6. A new submission clears the previous recommendation, the previous   *)
(* submit error and the build view in the step that issues its request,    *)
(* and while isSubmitting is true recommendation is null and the build     *)
(* view is not shown.                                                      *)
(***************************************************************************)
C6_SubmissionClearsResult ==
  /\ isSubmitting => recommendation = NoRecommendation /\ ~showBuildView
  /\ last.op = "handleRecommendClick" =>
       /\ isSubmitting
       /\ recommendation = NoRecommendation
       /\ submitError = NoError
       /\ ~showBuildView
       /\ \E r \in requests : r.id = nextReq

\* a second submission of the same page instance has just been issued, the
\* first one having settled (with a result or an error) before
C6_Witness ==
  /\ last.op = "handleRecommendClick"
  /\ epoch = 1
  /\ nextReq = 2
  /\ \A r \in requests : r.id = 2

(***************************************************************************)
(* C7. Cross-role no-op: handleHeroClick(id) where id is held by a slot    *)
(* other than the one the current stage governs changes no slot and does   *)
(* not change the stage.                                                   *)
(***************************************************************************)
C7_CrossRoleClick ==
  /\ Clicked
  /\ last.id \in AllSlotIds(last.pre) \ SlotIds(last.pre, last.pre.stage)

C7_CrossRoleNoOp == C7_CrossRoleClick => Sel = last.pre

\* a hero held by another slot was clicked in stage teamOthers while
\* teamOtherIds still had room
C7_Witness ==
  /\ C7_CrossRoleClick
  /\ last.pre.stage = "teamOthers"
  /\ Len(last.pre.teamOtherIds) \in 1 .. 3

(***************************************************************************)
(* C8. Toggle-off: handleHeroClick(id) where id is held by the slot of the *)
(* current stage clears that slot (hero, laneAlly) or removes exactly id   *)
(* from its sequence, keeping the order of the remaining ids; the stage    *)
(* and the four other slots are unchanged.                                 *)
(***************************************************************************)
C8_ToggleClick == Clicked /\ last.id \in SlotIds(last.pre, last.pre.stage)

\* new is old with its one occurrence of id cut out
C8_CutOut(old, id, new) ==
  \E i \in 1 .. Len(old) :
    /\ old[i] = id
    /\ new = SubSeq(old, 1, i - 1) \o SubSeq(old, i + 1, Len(old))

C9_AfterRoundTrip(s, id) ==
  SlotValue(handleHeroClick(handleStageClick(handleHeroClick(s, id), s.stage), id),
            s.stage)

\* the click on id assigns id to the slot of the current stage
C9_Assigns(s, id) ==
  /\ id \notin SlotIds(s, s.stage)
  /\ id \in SlotIds(handleHeroClick(s, id), s.stage)

\* the claim as stated, for every hero card of the grid
C9_RoundTripAlways ==
  HeroGridShown =>
    \A id \in Range(heroes) :
      C9_Assigns(Sel, id) => C9_AfterRoundTrip(Sel, id) = SlotValue(Sel, stage)

\* C9 as amended: the round trip restores the slot in the multi-valued
\* stages, and in the stages hero and laneAlly when the slot was empty; a
\* hero or lane ally held before the first click is replaced by it, and the
\* round trip leaves the slot empty.
C9_RoundTrip ==
  HeroGridShown =>
    \A id \in Range(heroes) :
      C9_Assigns(Sel, id) =>
        IF stage \in MultiValued \/ SlotValue(Sel, stage) = NoHero
          THEN C9_AfterRoundTrip(Sel, id) = SlotValue(Sel, stage)
          ELSE C9_AfterRoundTrip(Sel, id) = NoHero

\* an ally has just been appended to a non-empty teamOtherIds and the stage
\* is still teamOthers: the second click of the round trip is enabled
C9_Witness ==
  /\ HeroGridShown
  /\ Clicked
  /\ C9_Assigns(last.pre, last.id)
  /\ last.pre.stage = "teamOthers"
  /\ stage = "teamOthers"
  /\ Len(last.pre.teamOtherIds) >= 1
  /\ SlotValue(handleHeroClick(Sel, last.id), stage) = last.pre.teamOtherIds

(***************************************************************************)
(* C10. Over-selection.  The claim: in every stage, hero and laneAlly      *)
(* included, handleHeroClick(id) with an id held by no slot, when the slot *)
(* of the current stage is at capacity (1, 1, 4, 2, 4), changes no slot    *)
(* and does not change the stage.                                          *)
(***************************************************************************)
C10_Capacity(st) ==
  CASE st = "hero" -> 1
    [] st = "laneAlly" -> 1
    [] st = "teamOthers" -> 4
    [] st = "laneEnemies" -> 2
    [] st = "enemyOthers" -> 4

C10_OverSelection ==
  /\ Clicked
  /\ last.id \notin AllSlotIds(last.pre)
  /\ Cardinality(SlotIds(last.pre, last.pre.stage)) = C10_Capacity(last.pre.stage)

\* the claim as stated
C10_BackpressureAllStages == C10_OverSelection => Sel = last.pre

\* C10 as amended: in the multi-valued stages the click changes nothing; in
\* the stages hero and laneAlly the new id replaces the held one and the
\* stage advances (to laneAlly, to teamOthers), the other slots unchanged.
C10_Backpressure ==
  C10_OverSelection =>
    IF last.pre.stage \in MultiValued
      THEN Sel = last.pre
      ELSE /\ SlotValue(Sel, last.pre.stage) = last.id
           /\ stage = (IF last.pre.stage = "hero" THEN "laneAlly" ELSE "teamOthers")
           /\ \A st \in SelectionStage \ {last.pre.stage} :
                SlotValue(Sel, st) = SlotValue(last.pre, st)

\* a new id was clicked in stage laneEnemies with two lane enemies held
C10_Witness == C10_OverSelection /\ last.pre.stage = "laneEnemies"

(***************************************************************************)
(* C11. Single-valued auto-advance.                                        *)
(***************************************************************************)
\* the last event was a handleHeroClick on an id that no slot held, made in
\* stage st: step 3 of the handler ran
C11_AssigningClick(st) ==
  Clicked /\ last.pre.stage = st /\ last.id \notin AllSlotIds(last.pre)

\* C11: a handleHeroClick that assigns a hero in stage hero leaves heroId
\* equal to the clicked id and the stage equal to laneAlly, and one that
\* assigns in stage laneAlly leaves laneAllyId equal to the clicked id and
\* the stage equal to teamOthers, whatever the later slots hold.
C11_SingleValuedAdvance ==
  /\ C11_AssigningClick("hero") => heroId = last.id /\ stage = "laneAlly"
  /\ C11_AssigningClick("laneAlly") => laneAllyId = last.id /\ stage = "teamOthers"

\* a hero was assigned in stage hero while the lane ally and team slots
\* were already filled
C11_Witness ==
  /\ C11_AssigningClick("hero")
  /\ last.pre.laneAllyId # NoHero
  /\ Len(last.pre.teamOtherIds) > 0

(***************************************************************************)
(* C12. Multi-valued auto-advance.                                         *)
(***************************************************************************)
\* the last event was a handleHeroClick that appended to the slot of the
\* multi-valued stage st, whose capacity is max
C12_Append(st, max) ==
  C11_AssigningClick(st) /\ Len(SlotValue(last.pre, st)) < max

\* C12: an append in stage teamOthers leaves the stage at laneEnemies if it
\* brought teamOtherIds to 4 ids and at teamOthers otherwise; an append in
\* stage laneEnemies leaves the stage at enemyOthers if it brought
\* laneEnemyIds to 2 ids and at laneEnemies otherwise; after any
\* handleHeroClick made in stage enemyOthers the stage is enemyOthers.
C12_MultiValuedAdvance ==
  /\ C12_Append("teamOthers", MAX_TEAM_OTHERS) =>
       /\ teamOtherIds = Append(last.pre.teamOtherIds, last.id)
       /\ stage = (IF Len(teamOtherIds) = 4 THEN "laneEnemies" ELSE "teamOthers")
  /\ C12_Append("laneEnemies", MAX_LANE_ENEMIES) =>
       /\ laneEnemyIds = Append(last.pre.laneEnemyIds, last.id)
       /\ stage = (IF Len(laneEnemyIds) = 2 THEN "enemyOthers" ELSE "laneEnemies")
  /\ Clicked /\ last.pre.stage = "enemyOthers" => stage = "enemyOthers"

\* the append that filled enemyOtherIds left the stage at enemyOthers
C12_Witness ==
  /\ C12_Append("enemyOthers", MAX_ENEMY_OTHERS)
  /\ Len(enemyOtherIds) = MAX_ENEMY_OTHERS
  /\ stage = "enemyOthers"

(***************************************************************************)
(* C13. End to end: twelve clicks, then the request.                       *)
(***************************************************************************)
\* since the selection was last empty at stage hero, the events that
\* touched it are exactly twelve handleHeroClick calls on distinct ids
C13_TwelveClicks == trail # OffTrail /\ Len(trail) = 12

\* the request of the claim, for the click order t
C13_Request(t) ==
  [hero_id |-> t[1], lane_ally_id |-> t[2],
   team_other_ids |-> <<t[3], t[4], t[5], t[6]>>,
   lane_enemy_ids |-> <<t[7], t[8]>>,
   enemy_other_ids |-> <<t[9], t[10], t[11], t[12]>>,
   top_k_per_phase |-> 8]

\* C13: after twelve handleHeroClick calls on twelve distinct ids h1..h12
\* from the empty selection at stage hero, with no stage click in between,
\* canSubmit is true, the payload of the selection is hero_id h1,
\* lane_ally_id h2, team_other_ids [h3..h6], lane_enemy_ids [h7, h8],
\* enemy_other_ids [h9..h12] with top_k_per_phase 8, and a
\* handleRecommendClick made then puts exactly that request in flight.
C13_EndToEnd ==
  C13_TwelveClicks =>
    /\ canSubmit(Sel)
    /\ RecommendPayload(Sel) = C13_Request(trail)
    /\ last.op = "handleRecommendClick" =>
         \E r \in requests : r.id = nextReq /\ r.payload = C13_Request(trail)

\* the request was issued after twelve clicks that did not follow the
\* order of the grid
C13_Witness ==
  /\ C13_TwelveClicks
  /\ last.op = "handleRecommendClick"
  /\ trail[1] > trail[2]

C15_Effect ==
  last.op = "handleStageClick" =>
    /\ stage = last.st
    /\ \A st \in SelectionStage : SlotValue(Sel, st) = SlotValue(last.pre, st)

\* the claim as stated: wherever the page is mounted (and the run has a
\* detour left to spend), a click on each of the five stage buttons can
\* happen, and it has the effect above
C15_StageClickAlways ==
  /\ mounted /\ detours < MaxDetours =>
       \A next \in SelectionStage : ENABLED StageClick(next)
  /\ C15_Effect

\* C15 as amended: handleStageClick is enabled for each of the five stages
\* in every state in which the selection view is rendered, complete
\* selection or not and submission in flight or not; while the build view
\* is shown the stage buttons are not rendered and no stage click can
\* happen; a stage click sets the stage to the requested one and leaves the
\* five slots unchanged.
C15_StageClick ==
  /\ mounted /\ ~showBuildView /\ detours < MaxDetours =>
       \A next \in SelectionStage : ENABLED StageClick(next)
  /\ mounted /\ showBuildView =>
       \A next \in SelectionStage : ~ENABLED StageClick(next)
  /\ C15_Effect

\* a stage click on a complete selection moved the stage
C15_Witness ==
  /\ last.op = "handleStageClick"
  /\ canSubmit(last.pre)
  /\ stage # last.pre.stage

(***************************************************************************)
(* Vocabulary of the submission outcomes.                                  *)
(***************************************************************************)
\* the last event was the completion of a recommendation request
Completed == last.op \in {"recommendOk", "recommendFail"}

\* ... issued by the page instance that is mounted now
CompletedHere == Completed /\ mounted /\ last.from = epoch

\* ... issued by a page instance that was torn down before the completion
CompletedAfterTeardown == Completed /\ ~(mounted /\ last.from = epoch)

\* the last event was the failure of a submission of the page shown
FailedHere == CompletedHere /\ last.op = "recommendFail"

(***************************************************************************)
(* C16. A failed submission and the selection.                             *)
(***************************************************************************)
\* C16: when a submission of the page shown has failed, the five slots and
\* the stage are as they were when the submission started, the hero cards
\* and the stage buttons are rendered, and the Reset and the Recommend
\* button are not disabled.
C16_FailureKeepsSelection ==
  FailedHere =>
    /\ Sel = last.pre
    /\ HeroGridShown
    /\ SelectionViewShown
    /\ ~isSubmitting
    /\ RecommendButtonEnabled

(***************************************************************************)
(* C17. A failed submission and its message.                               *)
(***************************************************************************)
\* C17: in the state reached when a failed submission of the page shown
\* completes, the view that is rendered displays submitError.
C17_FailureShown == FailedHere => SubmitErrorDisplayed

(***************************************************************************)
(* C18. Non-2xx responses.                                                 *)
(***************************************************************************)
\* a request of the page shown completed with a non-2xx response
C18_NonOk ==
  /\ CompletedHere
  /\ last.res.kind = "response"
  /\ last.res.status \notin 200 .. 299

\* C18: after a non-2xx response to a request of the page shown, no
\* recommendation is held and submitError is the error field of the body
\* when the body is an object with a string error, and "Recommendation
\* failed with status <status>" otherwise.
C18_NonOkIsFailure ==
  C18_NonOk =>
    /\ recommendation = NoRecommendation
    /\ submitError =
         (IF last.res.body.json = "error" THEN last.res.body.error
          ELSE IF last.res.status = 404
                 THEN "Recommendation failed with status 404"
          ELSE "Recommendation failed with status 500")

\* a 404 whose body carries a string error set submitError to that string
C18_Witness ==
  /\ C18_NonOk
  /\ last.res.status = 404
  /\ last.res.body.json = "error"
  /\ submitError = "Upstream /recommend error"

(***************************************************************************)
(* C19. 2xx responses that are no RecommendResponse.                       *)
(***************************************************************************)
\* C19: after a 2xx response whose body is not a RecommendResponse (not
\* JSON, JSON null, a bare string, an object without recommendations),
\* submitError is set, no recommendation is held and the build view is not
\* shown.
C19_DecodeErrorIsFailure ==
  /\ CompletedHere
  /\ last.res.kind = "response"
  /\ last.res.status \in 200 .. 299
  /\ last.res.body.json # "RecommendResponse"
  => /\ submitError # NoError
     /\ recommendation = NoRecommendation
     /\ ~showBuildView

(***************************************************************************)
(* C20. Completion after the page was torn down.                           *)
(***************************************************************************)
\* C20: the completion of a recommendation fetch whose page instance was
\* torn down calls no state setter (a cancelled flag is checked before
\* every one), so recommendation, submitError, showBuildView and
\* isSubmitting are not written.
C20_NoWriteAfterTeardown == CompletedAfterTeardown => last.calls = {}

(***************************************************************************)
(* C21. Hero catalog load and teardown.                                    *)
(***************************************************************************)
\* the last event was the completion of a heroes fetch
HeroesLoaded == last.op \in {"loadHeroesOk", "loadHeroesFail"}

\* ... of a page instance that was unmounted before the completion
HeroesLoadedAfterTeardown == HeroesLoaded /\ ~(mounted /\ last.from = epoch)

\* C21: every step that completes a heroes fetch, resolved or rejected,
\* leaves the stage and the five slots unchanged; and when the page
\* instance that started the fetch was unmounted before, the step calls no
\* setter and leaves heroes, heroesError and isLoadingHeroes unchanged.
C21_HeroLoadCancellation ==
  [][HeroesLoaded' =>
       /\ UNCHANGED selVars
       /\ HeroesLoadedAfterTeardown' =>
            last'.calls = {} /\ UNCHANGED heroVars]_vars

\* the heroes fetch of an unmounted instance completed while the next
\* instance was loading
C21_Witness ==
  /\ HeroesLoadedAfterTeardown
  /\ mounted
  /\ isLoadingHeroes

(***************************************************************************)
(* Vocabulary of the landing page.                                         *)
(***************************************************************************)
\* the last event was the completion of a metadata fetch
MetadataLoaded == last.op \in {"metadataOk", "metadataFail"}

\* ... started by the landing page instance that is mounted now
MetadataLoadedHere == MetadataLoaded /\ homeMounted /\ last.from = homeEpoch

\* ... started by an instance that was unmounted before the completion
MetadataLoadedAfterTeardown ==
  MetadataLoaded /\ ~(homeMounted /\ last.from = homeEpoch)

\* the mounted instance has a metadata fetch of its own in flight
FetchIssuedHere == \E f \in metaFetches : f.epoch = homeEpoch /\ ~f.cancelled

(***************************************************************************)
(* C22. Metadata fetch and teardown.                                       *)
(***************************************************************************)
\* C22: a step that completes a metadata fetch whose landing page instance
\* was unmounted before writes neither metadataCache nor
\* metadataCacheTimestamp nor metadata, metadataError, isLoadingMetadata.
C22_MetadataCancellation ==
  [][MetadataLoadedAfterTeardown' =>
       /\ last'.calls = {}
       /\ UNCHANGED <<metadataCache, metadataCacheTimestamp, metadata,
                      metadataError, isLoadingMetadata>>]_vars

\* the fetch of an unmounted instance resolved while the next instance was
\* loading
C22_Witness ==
  /\ MetadataLoadedAfterTeardown
  /\ last.op = "metadataOk"
  /\ homeMounted
  /\ isLoadingMetadata

(***************************************************************************)
(* C23. Metadata freshness.                                                *)
(***************************************************************************)
\* C23: right after the mount of the landing page a fetch of that mount is
\* in flight if and only if the cache holds no value or now minus the
\* timestamp is at least 15 minutes; otherwise no fetch was issued and the
\* page shows the cached value.
C23_Freshness ==
  last.op = "homeMount" =>
    LET miss == \/ metadataCache = NoMetadata
                \/ now - metadataCacheTimestamp >= 15 * 60 * 1000
    IN /\ FetchIssuedHere <=> miss
       /\ ~miss => /\ metadata = metadataCache
                   /\ displayVersion = metadataCache.model_version
                   /\ ~isLoadingMetadata

\* a mount that found a value of exactly 15 minutes' age issued a fetch
C23_Witness ==
  /\ last.op = "homeMount"
  /\ metadataCache # NoMetadata
  /\ now - metadataCacheTimestamp = 15 * 60 * 1000
  /\ FetchIssuedHere

(***************************************************************************)
(* C24. Metadata single flight.                                            *)
(***************************************************************************)
\* C24: at most one metadata fetch is in flight at any time.
C24_SingleFlight == Cardinality(metaFetches) <= 1

(***************************************************************************)
(* C25. The cached value and its timestamp.                                *)
(***************************************************************************)
\* C25: the cached value is null if and only if the timestamp is 0, and
\* right after a fetch has written the cache the value is the payload of
\* that fetch and the timestamp is the time of the write.
C25_PairAtomicity ==
  /\ metadataCache = NoMetadata <=> metadataCacheTimestamp = 0
  /\ last.op = "metadataOk" /\ "metadataCache" \in last.calls =>
       /\ metadataCache = last.res.body
       /\ metadataCacheTimestamp = now

\* a fetch overwrote an older cached pair
C25_Witness ==
  /\ last.op = "metadataOk"
  /\ "metadataCache" \in last.calls
  /\ metadataCacheTimestamp > StartMs

(***************************************************************************)
(* C26. A failed metadata fetch and the stale value.                       *)
(***************************************************************************)
\* C26: when a metadata fetch of the page shown has failed while the cache
\* holds a value, the page shows that value and no error message.
C26_FallbackToStale ==
  MetadataLoadedHere /\ last.op = "metadataFail" /\ metadataCache # NoMetadata =>
    /\ metadata = metadataCache
    /\ ~MetadataErrorDisplayed

(***************************************************************************)
(* C27. No automatic retry.                                                *)
(***************************************************************************)
\* the requests in flight, by what identifies them
RequestIds == {r.id : r \in requests}
HeroFetchIds == {f.epoch : f \in heroFetches}
MetaFetchIds == {f.epoch : f \in metaFetches}

\* the requests a step issues
IssuedRecommend == RequestIds' \ RequestIds
IssuedHeroes == HeroFetchIds' \ HeroFetchIds
IssuedMetadata == MetaFetchIds' \ MetaFetchIds

\* C27: a submit issues exactly one recommendation request and nothing
\* else, a mount of the build page at most one heroes request, a mount of
\* the landing page at most one metadata request; no other step, the
\* failure of a request included, issues a request.
C27_NoAutomaticRetry ==
  [][/\ Cardinality(IssuedRecommend) =
          (IF last'.op = "handleRecommendClick" THEN 1 ELSE 0)
     /\ Cardinality(IssuedHeroes) <= (IF last'.op = "mount" THEN 1 ELSE 0)
     /\ Cardinality(IssuedMetadata) <= (IF last'.op = "homeMount" THEN 1 ELSE 0)
     /\ last'.op \in {"recommendFail", "loadHeroesFail", "metadataFail"} =>
          /\ RequestIds' \subseteq RequestIds
          /\ HeroFetchIds' \subseteq HeroFetchIds
          /\ MetaFetchIds' \subseteq MetaFetchIds]_vars

\* the one request of a submit has failed, the error is shown and nothing
\* is in flight
C27_Witness ==
  /\ last.op = "recommendFail"
  /\ mounted
  /\ submitError # NoError
  /\ ~isSubmitting
  /\ requests = {}
  /\ heroFetches = {}
  /\ metaFetches = {}

(***************************************************************************)
(* C28. An absent phase and an empty phase.                                *)
(***************************************************************************)
\* the response without the key phase
OmitPhase(recs, phase) == [p \in DOMAIN recs \ {phase} |-> recs[p]]

\* C28: the rendering has the four rows early, mid, late, very_late in
\* that order, and a response that maps a phase key to the empty list is
\* rendered exactly as the same response without the key.
C28_AbsentPhaseIsEmpty ==
  call.fn = "renderRecommendations" =>
    /\ [i \in 1..Len(call.out) |-> call.out[i].key] =
         <<"early", "mid", "late", "very_late">>
    /\ \A phase \in DOMAIN call.arg :
         call.arg[phase] = ItemList(<<>>) =>
           renderPhases(OmitPhase(call.arg, phase)) = call.out

\* a response with a phase absent, a phase empty and a phase with items
C28_Witness ==
  /\ call.fn = "renderRecommendations"
  /\ DOMAIN call.arg = {"early", "late"}
  /\ call.arg["early"] = ItemList(<<>>)
  /\ call.arg["late"] = ItemList(<<1, 2>>)
  /\ call.out[1].empty /\ call.out[2].empty /\ ~call.out[3].empty

(***************************************************************************)
(* C29. The two scales of formatPercent.                                   *)
(***************************************************************************)
\* C29 as stated: exactly the values in [0,1] are multiplied by 100, every
\* value outside [0,1], the negative ones included, is rendered as it is.
C29_DualScale ==
  call.fn = "formatPercent" /\ call.arg \notin {Null, NaN} =>
    call.out = toFixed1(IF 0 <= call.arg.units /\ call.arg.units <= Unit
                          THEN call.arg.units * 100
                          ELSE call.arg.units) \o "%"

\* C29, amended: exactly the values that are at most 1, the negative ones
\* included, are multiplied by 100, and the values above 1 are rendered as
\* they are, with one decimal place; so a fraction above 0.01 and its
\* percentage give the same text, as 0.873 and 87.3 give "87.3%".
C29_DualScaleAtMostOne ==
  /\ call.fn = "formatPercent" /\ call.arg \notin {Null, NaN} =>
       /\ call.out = toFixed1(IF call.arg.units <= Unit
                                THEN call.arg.units * 100
                                ELSE call.arg.units) \o "%"
       /\ Unit < call.arg.units * 100 /\ call.arg.units <= Unit =>
            call.out = formatPercent(Num(call.arg.units * 100))
  /\ call.fn = "formatPercent" /\ call.arg \in {Num(87300), Num(8730000)} =>
       call.out = "87.3%"

\* a negative value was formatted: -0.5 gives "-50.0%"
C29_Witness ==
  /\ call.fn = "formatPercent"
  /\ call.arg = Num(-50000)
  /\ call.out = "-50.0%"

C32_TierSymbol ==
  call.fn = "tierToRoman" =>
    /\ call.arg \in {Null, Undefined} => call.out = ""
    /\ call.arg \notin {Null, Undefined} =>
         /\ call.arg.value = 1 => call.out = "I"
         /\ call.arg.value = 2 => call.out = "II"
         /\ call.arg.value = 3 => call.out = "III"
         /\ call.arg.value = 4 => call.out = "IV"
         /\ call.arg.value = 5 => call.out = "V"
         /\ call.arg.value <= 0 => call.out = ""
         /\ call.arg.value > 5 => call.out = ToString(call.arg.value)

\* tier 6 has no numeral and is rendered as "6"
C32_Witness ==
  /\ call.fn = "tierToRoman"
  /\ call.arg = Tier(6)
  /\ call.out = "6"

(***************************************************************************)
(* C33. The two forms of the heroes response.                              *)
(***************************************************************************)
\* the heroes a body carries, whatever its form
HeroesCarried(data) ==
  IF data.kind = "object" THEN data.heroes ELSE ItemList(data.items)

\* C33: every consumer of the heroes read yields the heroes the body
\* carries, for the wrapped form and for the bare array alike.
C33_HeroesResponseForms ==
  call.fn \in {"loadHeroes", "fetchHeroes"} => call.out = HeroesCarried(call.arg)

(***************************************************************************)
(* C34. The result and the selection it was computed for.                  *)
(***************************************************************************)
\* C34: when a submission of the page shown has succeeded and the build
\* view shows its recommendation, the five slots displayed (the selection
\* summary of the build view) are the slots that were sent in the request,
\* and they are complete.
C34_ResultMatchesSelection ==
  /\ CompletedHere
  /\ last.op = "recommendOk"
  /\ showBuildView
  /\ recommendation # NoRecommendation
  => /\ Sel = last.pre
     /\ canSubmit(Sel)

(***************************************************************************)
(* C35. One submission at a time.                                          *)
(***************************************************************************)
\* C35 as stated: at most one recommendation request is in flight, and
\* isSubmitting is true exactly while one is in flight.
C35_SingleSubmission ==
  /\ Cardinality(requests) <= 1
  /\ isSubmitting <=> requests # {}

\* the requests in flight that the mounted page instance issued
RequestsOfPage == {r \in requests : Live(r)}

\* C35, amended: of the requests the mounted page instance issued at most
\* one is in flight, and isSubmitting is true exactly while one is; the
\* Recommend button is disabled while isSubmitting and no resetAll happens
\* while isSubmitting, which it leaves as it is.  (A request of an
\* instance that was unmounted stays in flight beside it.)
C35_SingleSubmissionOfPage ==
  /\ Cardinality(RequestsOfPage) <= 1
  /\ isSubmitting <=> RequestsOfPage # {}
  /\ isSubmitting => ~RecommendButtonEnabled
  /\ last.op = "resetAll" => ~isSubmitting

\* the page is submitting while the request of an earlier, unmounted
\* instance is still in flight
C35_Witness ==
  /\ isSubmitting
  /\ Cardinality(requests) = 2
  /\ Cardinality(RequestsOfPage) = 1

(***************************************************************************)
(* C36. A result and an error are never held together.                     *)
(***************************************************************************)
\* C36: in every state recommendation and submitError are not both
\* non-null, and while showBuildView is true submitError is null and
\* isSubmitting is false.
C36_ResultXorError ==
  /\ ~(recommendation # NoRecommendation /\ submitError # NoError)
  /\ showBuildView => submitError = NoError /\ ~isSubmitting

\* the second submission of a page succeeded and its result is shown
C36_Witness ==
  /\ mounted
  /\ showBuildView
  /\ recommendation # NoRecommendation
  /\ recommendation.kind = "RecommendResponse"
  /\ CompletedHere
  /\ last.req = MaxSubmits

(***************************************************************************)
(* C37. A submission terminates.                                           *)
(***************************************************************************)
\* the submission has ended with a result that is shown or with an error,
\* and not with both
SubmissionOutcome ==
  /\ ~isSubmitting
  /\ (recommendation # NoRecommendation /\ showBuildView) # (submitError # NoError)

\* C37: if every fetch eventually resolves or rejects, a submission that
\* was started leads, unless the page is left, to isSubmitting false with
\* exactly one of a recommendation shown in the build view and a
\* submitError.
C37_SubmissionTerminates == isSubmitting ~> (~mounted \/ SubmissionOutcome)

(***************************************************************************)
(* C38. The progress count of a stage.                                     *)
(***************************************************************************)
\* the number of heroes held in the slot of a stage
HeldInSlot(st, s) ==
  CASE st = "hero" -> IF s.heroId \in HeroIds THEN 1 ELSE 0
    [] st = "laneAlly" -> IF s.laneAllyId \in HeroIds THEN 1 ELSE 0
    [] st = "teamOthers" -> Len(s.teamOtherIds)
    [] st = "laneEnemies" -> Len(s.laneEnemyIds)
    [] st = "enemyOthers" -> Len(s.enemyOtherIds)

\* C38: for every stage the count getStageCounts gives is the number of
\* heroes held in the stage's slot, whatever their ids, and canSubmit is
\* true exactly when every stage's count equals what the stage requires.
C38_StageCounts ==
  /\ \A st \in SelectionStage :
       getStageCounts(st, Sel).current = HeldInSlot(st, Sel)
  /\ canSubmit(Sel) <=>
       \A st \in SelectionStage :
         getStageCounts(st, Sel).current = getStageCounts(st, Sel).required

(***************************************************************************)
(* C39. A failed metadata fetch and the cache.                             *)
(***************************************************************************)
\* C39: the step that completes a failed metadata fetch leaves the cached
\* value and its timestamp as they were, so the cache is fresh after the
\* step exactly if it was fresh before.
C39_FailureKeepsCache ==
  [][last'.op = "metadataFail" =>
       /\ UNCHANGED <<metadataCache, metadataCacheTimestamp>>
       /\ isCacheFresh' <=> isCacheFresh]_vars

\* a fetch of the page shown failed while the cache held a value
C39_Witness ==
  /\ MetadataLoadedHere
  /\ last.op = "metadataFail"
  /\ metadataCache # NoMetadata
  /\ metadataCacheTimestamp > 0

(***************************************************************************)
(* C40. The outcomes of the recommend proxy.                               *)
(***************************************************************************)
\* C40: POST /api/recommend makes at most one upstream call, with the
\* x-api-key header, and answers with the upstream body and a 2xx status
\* when upstream is 2xx, with the upstream's own status and a string error
\* field when upstream is non-2xx, and with 500 and a string error field
\* when reading the request or calling upstream throws; never with 2xx for
\* a non-2xx upstream.
C40_ProxyOutcomes ==
  call.fn = "POST" =>
    LET up == call.arg.upstream
        out == call.out.response
        thrown == call.arg.request.body = "notJson" \/ up.kind = "rejected"
    IN /\ call.out.upstreamCalls <= 1
       /\ call.out.upstreamCalls = 1 => call.out.apiKey
       /\ thrown =>
            /\ out.status = 500
            /\ out.body.json = "object"
            /\ out.body.error = "Internal error in /api/recommend"
       /\ ~thrown /\ UpstreamOk(up) =>
            /\ out.status \in 200..299
            /\ out.body = ParseUpstream(up.text)
       /\ ~thrown /\ ~UpstreamOk(up) =>
            /\ out.status = up.status
            /\ out.body.json = "object"
            /\ out.body.error = "Upstream /recommend error"

=============================================================================
